---------------------------- MODULE Spec2Model ----------------------------
(***************************************************************************)
(* Model of the SEO scoring / content-analysis core of the blog platform   *)
(* (seo_utils.py, utils.py) and of the SEO admin handlers that call it     *)
(* (admin_seo.py).                                                         *)
(*                                                                         *)
(* Python strings are sequences of one-character strings.  Regular         *)
(* expressions are sequences of nodes interpreted by Ends/Search/Sub; each *)
(* pattern below is the transcription of the pattern in the source.        *)
(***************************************************************************)
EXTENDS Integers, Sequences, FiniteSets, TLC

VARIABLES posts, post_seo, next_id, last, call,
          post_images, post_drafts, post_categories, files

\* the tables and the upload directory that only admin_seo_delete_post changes
children == <<post_images, post_drafts, post_categories, files>>
vars == <<posts, post_seo, next_id, last, call, children>>

-----------------------------------------------------------------------------
(* Characters and Python string primitives                                 *)

Uppers == <<"A","B","C","D","E","F","G","H","I","J","K","L","M","N","O","P","Q","R","S","T","U","V","W","X","Y","Z">>
Lowers == <<"a","b","c","d","e","f","g","h","i","j","k","l","m","n","o","p","q","r","s","t","u","v","w","x","y","z">>
Digits == {"0","1","2","3","4","5","6","7","8","9"}
UpperSet == {Uppers[i] : i \in 1..26}
LowerSet == {Lowers[i] : i \in 1..26}
Letters == UpperSet \cup LowerSet
\* \w and \s of Python's re for str patterns (ASCII part)
WordChars == Letters \cup Digits \cup {"_"}
Space == {" ", "\n", "\t", "\r"}

LowerMap == [c \in UpperSet |-> Lowers[CHOOSE i \in 1..26 : Uppers[i] = c]]

\* str.lower() on one character, and on a string
LowerCh(c) == IF c \in UpperSet THEN LowerMap[c] ELSE c
Lower(s) == [i \in 1..Len(s) |-> LowerCh(s[i])]

Min(S) == CHOOSE x \in S : \A y \in S : x <= y
Max(S) == CHOOSE x \in S : \A y \in S : x >= y

\* min(a, b), max(a, b)
PyMin(a, b) == IF a < b THEN a ELSE b
PyMax(a, b) == IF a > b THEN a ELSE b

\* s[a-1:b-1] of Python, as the 1-based positions a..b-1
Slice(s, a, b) == SubSeq(s, a, b - 1)

\* str.strip(): drop leading and trailing whitespace
strip(s) ==
    LET n == Len(s)
        keep == {i \in 1..n : s[i] \notin Space}
    IN  IF keep = {} THEN <<>> ELSE SubSeq(s, Min(keep), Max(keep))

\* str.split(): the maximal runs of non-whitespace; WordStarts are their
\* first positions, so len(s.split()) = Cardinality(WordStarts(s))
WordStarts(s) ==
    {i \in 1..Len(s) : s[i] \notin Space /\ (i = 1 \/ s[i-1] \in Space)}
WordEnd(s, i) ==
    CHOOSE j \in i..Len(s) :
        /\ (j = Len(s) \/ s[j+1] \in Space)
        /\ \A k \in i..j : s[k] \notin Space
split(s) == {SubSeq(s, i, WordEnd(s, i)) : i \in WordStarts(s)}
SplitLen(s) == Cardinality(WordStarts(s))

\* None: equal to no string (a string is a sequence of 1-character strings)
None == <<"None">>
\* `not x` for x a string or None
Falsy(x) == x = None \/ x = <<>>

-----------------------------------------------------------------------------
(* Regular expressions (Python re).  A pattern is a sequence of nodes; a   *)
(* position p in 1..Len(s)+1 is the index of the next character to read.   *)

Inf == -1
\* literal text
Lit(str) == [t |-> "lit", s |-> str]
\* a character class repeated lo..hi times (hi = Inf: unbounded); neg is [^...]
Rep(set, neg, lo, hi) == [t |-> "rep", c |-> set, neg |-> neg, lo |-> lo, hi |-> hi]
Cls(set) == Rep(set, FALSE, 1, 1)
\* the dot under re.DOTALL: any character
AnyStar == Rep({}, TRUE, 0, Inf)
\* x? for a literal x
Opt(str) == [t |-> "opt", s |-> str]
\* $ without re.MULTILINE
Eos == [t |-> "eos"]

CharIn(ch, node, ci) ==
    LET in == IF ci THEN LowerCh(ch) \in {LowerCh(x) : x \in node.c}
                    ELSE ch \in node.c
    IN  in # node.neg

LitAt(s, p, str, ci) ==
    /\ p + Len(str) - 1 <= Len(s)
    /\ \A k \in 1..Len(str) :
          IF ci THEN LowerCh(s[p + k - 1]) = LowerCh(str[k])
                ELSE s[p + k - 1] = str[k]

\* first position at or after p whose character is outside the class
RunEnd(s, p, node, ci) ==
    IF node.neg /\ node.c = {} THEN Len(s) + 1
    ELSE CHOOSE q \in p..(Len(s) + 1) :
            /\ (q = Len(s) + 1 \/ ~CharIn(s[q], node, ci))
            /\ \A r \in p..(q - 1) : CharIn(s[r], node, ci)

RepEnds(s, p, node, ci) ==
    LET q  == RunEnd(s, p, node, ci)
        hi == IF node.hi = Inf \/ p + node.hi > q THEN q ELSE p + node.hi
    IN  (p + node.lo)..hi

\* (?:a|b|...): each alternative is itself a pattern
Alt(rs) == [t |-> "alt", rs |-> rs]

RECURSIVE EndsFrom(_, _, _, _, _)

\* positions reachable by reading one node from a position of S
StepNode(node, s, S, ci) ==
    CASE node.t = "lit" ->
            {p + Len(node.s) : p \in {q \in S : LitAt(s, q, node.s, ci)}}
      [] node.t = "opt" ->
            S \cup {p + Len(node.s) : p \in {q \in S : LitAt(s, q, node.s, ci)}}
      [] node.t = "rep" ->
            IF node.neg /\ node.c = {} /\ node.hi = Inf
            THEN (Min(S) + node.lo)..(Len(s) + 1)
            ELSE UNION {RepEnds(s, p, node, ci) : p \in S}
      [] node.t = "eos" ->
            {p \in S : p = Len(s) + 1 \/ (p = Len(s) /\ s[p] = "\n")}
      [] node.t = "alt" ->
            UNION {EndsFrom(node.rs[a], 1, s, S, ci) : a \in 1..Len(node.rs)}

\* all positions at which a match of re[k..] started from a position of S can end
EndsFrom(re, k, s, S, ci) ==
    IF S = {} THEN {}
    ELSE IF k > Len(re) THEN S
    ELSE EndsFrom(re, k + 1, s, StepNode(re[k], s, S, ci), ci)

Ends(re, s, p, ci) == EndsFrom(re, 1, s, {p}, ci)

\* re.search(re, s[from-1:]): start of the leftmost match, 0 when there is none
FirstOf(starts) == IF starts = {} THEN 0 ELSE Min(starts)
Search(re, s, from, ci) ==
    FirstOf({i \in from..(Len(s) + 1) : Ends(re, s, i, ci) # {}})

\* re.sub(re, repl, s) for patterns whose quantifiers are all greedy and that
\* never match the empty string: each leftmost match (at i) is taken to its
\* longest end
RECURSIVE SubFrom(_, _, _, _, _)
SubAt(re, repl, s, from, ci, i) ==
    IF i = 0 THEN SubSeq(s, from, Len(s))
    ELSE SubSeq(s, from, i - 1) \o repl
            \o SubFrom(re, repl, s, Max(Ends(re, s, i, ci)), ci)
SubFrom(re, repl, s, from, ci) == SubAt(re, repl, s, from, ci, Search(re, s, from, ci))

Sub(re, repl, s, ci) == SubFrom(re, repl, s, 1, ci)

-----------------------------------------------------------------------------
(* utils.py                                                                *)

\* <h[2-6][^>]*>  and  </h[2-6]>
HOpen == <<Lit(<<"<","h">>), Cls({"2","3","4","5","6"}), Rep({">"}, TRUE, 0, Inf), Lit(<<">">>)>>
HClose == <<Lit(<<"<","/","h">>), Cls({"2","3","4","5","6"}), Lit(<<">">>)>>
Ws1 == Rep(Space, FALSE, 1, Inf)

\* <h[2-6][^>]*>.*? mid .*?</h[2-6]>.*$
HeadingSection(mid) == HOpen \o <<AnyStar>> \o mid \o <<AnyStar>> \o HClose \o <<AnyStar, Eos>>

faq_patterns == <<
    HeadingSection(<<Lit(<<"f","a","q">>)>>),
    HeadingSection(<<Lit(<<"f","r","e","q","u","e","n","t","l","y">>), Ws1, Lit(<<"a","s","k","e","d">>)>>),
    HeadingSection(<<Lit(<<"q","u","e","s","t","i","o","n">>), Opt(<<"s">>), Ws1, Lit(<<"a","n","d">>), Ws1,
                     Lit(<<"a","n","s","w","e","r">>), Opt(<<"s">>)>>) >>

internal_link_patterns == <<
    HeadingSection(<<Lit(<<"i","n","t","e","r","n","a","l">>), Ws1, Lit(<<"l","i","n","k","i","n","g">>)>>),
    HeadingSection(<<Lit(<<"i","n","t","e","r","n","a","l">>), Ws1, Lit(<<"l","i","n","k">>)>>),
    HeadingSection(<<Lit(<<"r","e","l","a","t","e","d">>), Ws1, Lit(<<"a","r","t","i","c","l","e","s">>)>>),
    HeadingSection(<<Lit(<<"s","e","e">>), Ws1, Lit(<<"a","l","s","o">>)>>),
    <<Lit(<<"i","n","t","e","r","n","a","l">>), Ws1, Lit(<<"l","i","n","k","i","n","g">>), Ws1,
      Lit(<<"s","u","g","g","e","s","t","i","o","n","s">>), AnyStar, Eos>>,
    <<Lit(<<"i","n","t","e","r","n","a","l">>), Ws1, Lit(<<"l","i","n","k">>), Ws1,
      Lit(<<"s","u","g","g","e","s","t","i","o","n","s">>), AnyStar, Eos>> >>

text_patterns_to_remove == <<
    <<Lit(<<"a","n","c","h","o","r">>), Ws1, Lit(<<"t","e","x","t">>), Opt(<<"s">>), AnyStar, Eos>>,
    <<Lit(<<"t","a","r","g","e","t">>), Ws1, Lit(<<"s","l","u","g">>), AnyStar, Eos>>,
    <<Lit(<<"r","e","l","a","t","e","d">>), Ws1, Lit(<<"a","r","t","i","c","l","e">>), Opt(<<"s">>), AnyStar, Eos>>,
    <<Lit(<<"s","e","e">>), Ws1, Lit(<<"a","l","s","o">>), AnyStar, Eos>> >>

\* <[^>]+>
AnyTag == <<Lit(<<"<">>), Rep({">"}, TRUE, 1, Inf), Lit(<<">">>)>>

\* for pattern in patterns: match = re.search(...); if match: cut at match.start(); break
RECURSIVE CutAtFirst(_, _, _)
CutAt(patterns, k, s, i) ==
    IF i # 0 THEN SubSeq(s, 1, i - 1)
    ELSE CutAtFirst(patterns, k + 1, s)
CutAtFirst(patterns, k, s) ==
    IF k > Len(patterns) THEN s
    ELSE CutAt(patterns, k, s, Search(patterns[k], s, 1, TRUE))

\* for pattern in patterns: text = re.sub(pattern, '', text)
RECURSIVE RemoveAll(_, _, _)
RemoveAll(patterns, k, s) ==
    IF k > Len(patterns) THEN s
    ELSE RemoveAll(patterns, k + 1, Sub(patterns[k], <<>>, s, TRUE))

\* text = re.sub(r'<[^>]+>', ' ', cleaned_content) ... re.sub(r'\s+', ' ', text).strip()
SearchableText(cleaned_content) ==
    strip(Sub(<<Ws1>>, <<" ">>,
              RemoveAll(text_patterns_to_remove, 1, Sub(AnyTag, <<" ">>, cleaned_content, FALSE)),
              FALSE))

extract_searchable_content(content) ==
    IF Falsy(content) THEN <<>>
    ELSE SearchableText(CutAtFirst(internal_link_patterns, 1, CutAtFirst(faq_patterns, 1, content)))

-----------------------------------------------------------------------------
(* seo_utils.py                                                            *)

\* A dict is a function whose DOMAIN is its set of keys.
\* (faulty variant: the presence of the key alone is tested)
TruthyKeyOnly(d, k) == k \in DOMAIN d
\* d.get(k) is truthy: the key is present and its string is not empty
Truthy(d, k) == k \in DOMAIN d /\ d[k] # <<>>
\* d.get(k) is truthy for a numeric value: present and not 0
TruthyNum(d, k) == k \in DOMAIN d /\ d[k] # 0

\* Python round(a / b) for integers a >= 0, b > 0: ties go to the even integer
RoundHalfEven(a, b) ==
    LET q == a \div b
        r == a % b
    IN  IF 2 * r < b THEN q
        ELSE IF 2 * r > b THEN q + 1
        ELSE IF q % 2 = 0 THEN q ELSE q + 1

\* BeautifulSoup(html, 'html.parser').get_text(): the text nodes joined with
\* no separator.  A tag is </?[a-zA-Z][^>]*> ; the inputs of the model hold
\* no comments, entities or '>' inside attribute values.
HtmlTag == <<Lit(<<"<">>), Opt(<<"/">>), Cls(Letters), Rep({">"}, TRUE, 0, Inf), Lit(<<">">>)>>
get_text(html) == Sub(HtmlTag, <<>>, html, FALSE)

calculate_word_count(html_content) ==
    IF Falsy(html_content) THEN 0
    ELSE SplitLen(get_text(html_content))

words_per_minute == 200

\* (faulty variant: the floor of 1 is missing)
calculate_reading_time_unfloored(html_content, wpm) ==
    RoundHalfEven(calculate_word_count(html_content), wpm)

\* calculate_reading_time(html_content, words_per_minute=wpm)
calculate_reading_time_wpm(html_content, wpm) ==
    PyMax(1, RoundHalfEven(calculate_word_count(html_content), wpm))
calculate_reading_time(html_content) ==
    calculate_reading_time_wpm(html_content, words_per_minute)

\* soup.find_all(['h2', 'h3']): start tags <h2 ...> / <h3 ...> in document order
H23Open == <<Lit(<<"<","h">>), Cls({"2","3"}),
             Alt(<< <<Lit(<<">">>)>>,
                    <<Cls(Space \cup {"/"}), Rep({">"}, TRUE, 0, Inf), Lit(<<">">>)>> >>)>>
HCloseOf(d) == <<Lit(<<"<","/","h", d>>), Rep(Space, FALSE, 0, Inf), Lit(<<">">>)>>

RECURSIVE HeadingsFrom(_, _)
\* the heading element whose start tag is s[i..e-1]; c is the start of its end tag
HeadingBody(s, e, c) == Slice(s, e, IF c = 0 THEN Len(s) + 1 ELSE c)
HeadingAt(s, i, e) ==
    <<[level |-> <<"h", s[i + 2]>>,
       text |-> strip(get_text(HeadingBody(s, e, Search(HCloseOf(s[i + 2]), s, e, TRUE))))]>>
        \o HeadingsFrom(s, e)
HeadingsAt(s, i) ==
    IF i = 0 THEN <<>> ELSE HeadingAt(s, i, Max(Ends(H23Open, s, i, TRUE)))
HeadingsFrom(s, from) == HeadingsAt(s, Search(H23Open, s, from, TRUE))

extract_headings(html_content) ==
    IF Falsy(html_content) THEN <<>>
    ELSE HeadingsFrom(html_content, 1)

\* str.count(sub): non-overlapping occurrences, leftmost first
RECURSIVE CountFrom(_, _, _)
CountAt(text, sub, i) == IF i = 0 THEN 0 ELSE 1 + CountFrom(text, sub, i + Len(sub))
CountFrom(text, sub, from) == CountAt(text, sub, Search(<<Lit(sub)>>, text, from, FALSE))

\* density = (keyword_count / word_count) * 100; round(density, 2).  The result
\* is returned in hundredths of a percent: 1.0 is 100, 2.5 is 250.
Density(keyword_count, word_count) ==
    IF word_count = 0 THEN 0
    ELSE RoundHalfEven(keyword_count * 10000, word_count)
DensityOfText(text, keyword_lower) ==
    Density(CountFrom(text, keyword_lower, 1), SplitLen(text))

calculate_keyword_density(content, keyword) ==
    IF Falsy(content) \/ Falsy(keyword) THEN 0
    ELSE DensityOfText(Lower(get_text(content)), Lower(keyword))

\* app.py, Post.word_count: tags are deleted (not replaced by a space)
Post_word_count(post) ==
    IF ~Falsy(post.content)
    THEN SplitLen(Sub(AnyTag, <<>>, post.content, FALSE))
    ELSE 0

\* app.py, Post.reading_time
Post_reading_time(post) == PyMax(1, RoundHalfEven(Post_word_count(post), 200))

max_score == 100

\* (faulty variant: a missing title is penalised)
title_points_penalty(post) ==
    IF post.title # <<>> /\ Len(post.title) >= 30 /\ Len(post.title) <= 60 THEN 10
    ELSE IF post.title # <<>> THEN 5
    ELSE -5

\* (faulty variant: the lower title bound is exclusive)
title_points_exclusive(post) ==
    IF post.title # <<>> /\ Len(post.title) > 30 /\ Len(post.title) <= 60 THEN 10
    ELSE IF post.title # <<>> THEN 5
    ELSE 0

\* Title (10 points)
title_points(post) ==
    IF post.title # <<>> /\ Len(post.title) >= 30 /\ Len(post.title) <= 60 THEN 10
    ELSE IF post.title # <<>> THEN 5
    ELSE 0

\* Meta description (10 points)
meta_description_points(seo_data) ==
    IF Truthy(seo_data, "meta_description")
    THEN LET desc == seo_data["meta_description"]
         IN  IF Len(desc) >= 120 /\ Len(desc) <= 155 THEN 10
             ELSE IF desc # <<>> THEN 5
             ELSE 0
    ELSE 0

\* (faulty variant: the primary keyword earns 20 points)
primary_keyword_points_20(seo_data) ==
    IF Truthy(seo_data, "primary_keyword") THEN 20 ELSE 0

\* Primary keyword (15 points)
primary_keyword_points(seo_data) ==
    IF Truthy(seo_data, "primary_keyword") THEN 15 ELSE 0

\* Content length (15 points)
WordCountPoints(word_count) ==
    IF word_count >= 1000 THEN 15
    ELSE IF word_count >= 500 THEN 10
    ELSE IF word_count >= 300 THEN 5
    ELSE 0
content_length_points(post) == WordCountPoints(Post_word_count(post))

\* Headings (10 points)
HeadingCountPoints(headings) ==
    IF Len(headings) >= 3 THEN 10
    ELSE IF Len(headings) >= 1 THEN 5
    ELSE 0
headings_points(post) == HeadingCountPoints(extract_headings(post.content))

\* Images with ALT text (10 points)
featured_image_points(post) ==
    IF post.featured_image # <<>> THEN 5 ELSE 0

\* Keyword density (10 points)
keyword_density_points(seo_data) ==
    IF TruthyNum(seo_data, "keyword_density")
    THEN LET density == seo_data["keyword_density"]
         IN  IF 100 <= density /\ density <= 250 THEN 10
             ELSE IF 50 <= density /\ density <= 300 THEN 5
             ELSE 0
    ELSE 0

\* URL slug (5 points)
slug_points(post) ==
    IF post.slug # <<>> /\ Len(post.slug) <= 60 THEN 5 ELSE 0

\* Excerpt (5 points)
excerpt_points(post) ==
    IF post.excerpt # <<>> THEN 5 ELSE 0

\* OG tags (10 points)
og_points(seo_data) ==
    IF Truthy(seo_data, "og_title") /\ Truthy(seo_data, "og_description") THEN 10
    ELSE IF Truthy(seo_data, "og_title") \/ Truthy(seo_data, "og_description") THEN 5
    ELSE 0

calculate_seo_score(post, seo_data) ==
    PyMin(title_points(post)
          + meta_description_points(seo_data)
          + primary_keyword_points(seo_data)
          + content_length_points(post)
          + headings_points(post)
          + featured_image_points(post)
          + keyword_density_points(seo_data)
          + slug_points(post)
          + excerpt_points(post)
          + og_points(seo_data),
          max_score)

\* A message is <<template, arguments of .format()>>
Msg(t) == <<t, <<>>>>
MsgF(t, n) == <<t, <<n>>>>
When(c, m) == IF c THEN <<m>> ELSE <<>>

\* (faulty variant: the meta title warning starts at 60 characters, and the OG image
\* warning is left out)
validate_seo_fields_off_by_one(seo_data) ==
    [errors |->
            When(~Truthy(seo_data, "primary_keyword"), Msg("Primary keyword is required"))
         \o When(~Truthy(seo_data, "meta_title"), Msg("Meta title is required"))
         \o When(~Truthy(seo_data, "meta_description"), Msg("Meta description is required")),
     warnings |->
            When(Truthy(seo_data, "meta_title") /\ Len(seo_data["meta_title"]) >= 60,
                 MsgF("Meta title should be 60 characters or less (currently {})",
                      Len(seo_data["meta_title"])))
         \o When(~Truthy(seo_data, "og_title"), Msg("OG title is recommended for social sharing"))
         \o When(~Truthy(seo_data, "og_description"), Msg("OG description is recommended for social sharing"))]

validate_seo_fields(seo_data) ==
    LET errors ==
            When(~Truthy(seo_data, "primary_keyword"), Msg("Primary keyword is required"))
         \o When(~Truthy(seo_data, "meta_title"), Msg("Meta title is required"))
         \o When(~Truthy(seo_data, "meta_description"), Msg("Meta description is required"))
        warnings ==
            When(Truthy(seo_data, "meta_title") /\ Len(seo_data["meta_title"]) > 60,
                 MsgF("Meta title should be 60 characters or less (currently {})",
                      Len(seo_data["meta_title"])))
         \o When(Truthy(seo_data, "meta_description") /\ Len(seo_data["meta_description"]) > 155,
                 MsgF("Meta description should be 155 characters or less (currently {})",
                      Len(seo_data["meta_description"])))
         \o When(~Truthy(seo_data, "og_title"), Msg("OG title is recommended for social sharing"))
         \o When(~Truthy(seo_data, "og_description"), Msg("OG description is recommended for social sharing"))
         \o When(~Truthy(seo_data, "og_image"), Msg("OG image is recommended for social sharing"))
    IN  [errors |-> errors, warnings |-> warnings]

\* getattr(obj, name, default)
getattr(obj, name, default) == IF name \in DOMAIN obj THEN obj[name] ELSE default
\* None where a post id is expected: equal to no id
NoneId == 0

\* list.sort(key=relevance, reverse=True): stable, descending
RECURSIVE InsertDesc(_, _)
InsertDesc(sorted, x) ==
    IF sorted = <<>> THEN <<x>>
    ELSE IF Head(sorted).relevance >= x.relevance
         THEN <<Head(sorted)>> \o InsertDesc(Tail(sorted), x)
         ELSE <<x>> \o sorted
RECURSIVE SortDesc(_, _)
SortDesc(xs, k) ==
    IF k = 0 THEN <<>> ELSE InsertDesc(SortDesc(xs, k - 1), xs[k])

RECURSIVE LinkLoop(_, _, _)
\* one candidate of the loop: common_words = title_words.intersection(post_words)
Suggestion(post, common_words) ==
    IF Cardinality(common_words) >= 2
    THEN <<[post |-> post, relevance |-> Cardinality(common_words),
            reason |-> MsgF("Shares {} keywords", Cardinality(common_words))]>>
    ELSE <<>>
LinkLoop(title_words, all_posts, k) ==
    IF k > Len(all_posts) THEN <<>>
    ELSE IF all_posts[k].id = getattr(all_posts[k], "id", NoneId)
         THEN LinkLoop(title_words, all_posts, k + 1)
         ELSE Suggestion(all_posts[k], title_words \cap split(Lower(all_posts[k].title)))
                \o LinkLoop(title_words, all_posts, k + 1)

Top5(sorted) == SubSeq(sorted, 1, PyMin(Len(sorted), 5))
SortedSuggestions(suggestions) == SortDesc(suggestions, Len(suggestions))

generate_internal_link_suggestions(post_title, all_posts) ==
    Top5(SortedSuggestions(LinkLoop(split(Lower(post_title)), all_posts, 1)))


\* the outcome of a call: a returned value or a raised exception
Returned(v) == [raised |-> FALSE, value |-> v]
Raised(exc) == [raised |-> TRUE, exception |-> exc]

\* s[:n] if len(s) <= n else s[:n - 3] + '...'
Ellipsize(s, n) == IF Len(s) <= n THEN s ELSE Slice(s, 1, n - 2) \o <<".", ".", ".">>

\* len(title) raises TypeError for None
generate_og_tags(title, description) ==
    IF title = None THEN Raised("TypeError")
    ELSE Returned([og_title |-> Ellipsize(title, 100),
                   og_description |-> IF ~Falsy(description) THEN Ellipsize(description, 300)
                                      ELSE Ellipsize(title, 300)])

generate_twitter_tags(title, description) ==
    IF title = None THEN Raised("TypeError")
    ELSE Returned([twitter_title |-> Ellipsize(title, 70),
                   twitter_description |-> IF ~Falsy(description) THEN Ellipsize(description, 200)
                                           ELSE Ellipsize(title, 200)])

\* post_title.lower() raises AttributeError for None
try_generate_internal_link_suggestions(post_title, all_posts) ==
    IF post_title = None THEN Raised("AttributeError")
    ELSE Returned(generate_internal_link_suggestions(post_title, all_posts))

-----------------------------------------------------------------------------
(* utils.py, process_blog_content; admin_seo.py                            *)

\* (faulty variant: every run appends to the content)
process_blog_content_appending(content) ==
    IF Falsy(content) THEN <<>> ELSE content \o <<" ">>

process_blog_content(content) ==
    IF Falsy(content) THEN <<>> ELSE content

\* re.sub(r'[^\w\s-]', '', text.lower()); re.sub(r'[-\s]+', '-', slug); slug[:100]
Slug100(slug) == SubSeq(slug, 1, PyMin(Len(slug), 100))
create_slug(text) ==
    Slug100(Sub(<<Rep(Space \cup {"-"}, FALSE, 1, Inf)>>, <<"-">>,
                Sub(<<Rep(WordChars \cup Space \cup {"-"}, TRUE, 1, 1)>>, <<>>, Lower(text), FALSE),
                FALSE))

SeoKeys == {"primary_keyword", "secondary_keywords", "meta_title", "meta_description",
            "og_title", "og_description", "og_image", "twitter_title",
            "twitter_description", "twitter_image", "canonical_url", "schema_type"}

\* seo_data = {key: request.form.get(key, '').strip(), ...}
FormSeoData(form) == [k \in SeoKeys |-> strip(form[k])]

\* a or b for strings
Or(a, b) == IF a # <<>> THEN a ELSE b

\* the PostSEO row written by the new-post and edit-post handlers
SeoRow(seo_data, featured_image, reading_time, word_count, keyword_density, seo_score) ==
    [primary_keyword     |-> seo_data["primary_keyword"],
     secondary_keywords  |-> seo_data["secondary_keywords"],
     meta_title          |-> seo_data["meta_title"],
     meta_description    |-> seo_data["meta_description"],
     og_title            |-> Or(seo_data["og_title"], seo_data["meta_title"]),
     og_description      |-> Or(seo_data["og_description"], seo_data["meta_description"]),
     og_image            |-> Or(seo_data["og_image"], featured_image),
     twitter_title       |-> Or(seo_data["twitter_title"], seo_data["meta_title"]),
     twitter_description |-> Or(seo_data["twitter_description"], seo_data["meta_description"]),
     twitter_image       |-> Or(seo_data["twitter_image"], featured_image),
     canonical_url       |-> seo_data["canonical_url"],
     schema_type         |-> seo_data["schema_type"],
     reading_time        |-> reading_time,
     word_count          |-> word_count,
     keyword_density     |-> keyword_density,
     seo_score           |-> seo_score]

\* keyword_density = 0; if seo_data['primary_keyword']: keyword_density = ...
SaveKeywordDensity(content, seo_data) ==
    IF seo_data["primary_keyword"] # <<>>
    THEN calculate_keyword_density(content, seo_data["primary_keyword"])
    ELSE 0

\* the row of metrics and score saved with a post: seo_score is
\* calculate_seo_score(post, seo_data) on the submitted seo_data
SavedSeoRow(post, content, seo_data) ==
    SeoRow(seo_data, post.featured_image, calculate_reading_time(content),
           calculate_word_count(content), SaveKeywordDensity(content, seo_data),
           calculate_seo_score(post, seo_data))

\* Post.query.filter_by(slug=slug).first(), excluding the post `except`
SlugTaken(slug, except) == \E i \in DOMAIN posts : posts[i].slug = slug /\ i # except

MaxPosts == 2

Rejected(op, form, outcome, errors, v) ==
    /\ last' = [op |-> op, form |-> form, outcome |-> outcome,
                errors |-> errors, seo_errors |-> v.errors, warnings |-> v.warnings]
    /\ UNCHANGED <<posts, post_seo, next_id, children>>

\* db.session.add(post); db.session.add(post_seo) / update; db.session.commit()
Commit(op, form, v, post, seo_data, row) ==
    /\ posts' = (post.id :> post) @@ posts
    /\ post_seo' = (post.id :> row) @@ post_seo
    /\ next_id' = IF op = "new" THEN next_id + 1 ELSE next_id
    /\ last' = [op |-> op, form |-> form, outcome |-> "saved",
                errors |-> <<>>, seo_errors |-> v.errors, warnings |-> v.warnings,
                post_id |-> post.id, seo_data |-> seo_data, seo_score |-> row.seo_score]
    \* the forms of the model name no category and upload no image
    /\ UNCHANGED children

Save(op, form, v, post, content, seo_data) ==
    Commit(op, form, v, post, seo_data, SavedSeoRow(post, content, seo_data))

\* errors = []; 'Title is required'; 'Content is required'; errors.extend(seo_errors)
NewPostErrors(title, content, v) ==
    When(title = <<>>, Msg("Title is required"))
        \o When(content = <<>>, Msg("Content is required"))
        \o v.errors

NewPostChecked(form, title, slug, content, excerpt, featured_image, seo_data, v, errors) ==
    IF errors # <<>> THEN Rejected("new", form, "errors", errors, v)
    ELSE IF SlugTaken(slug, 0) THEN Rejected("new", form, "slug_exists", <<>>, v)
    ELSE /\ next_id <= MaxPosts
         /\ Save("new", form, v,
                 [id |-> next_id, title |-> title, slug |-> slug,
                  content |-> process_blog_content(content), excerpt |-> excerpt,
                  featured_image |-> featured_image],
                 content, seo_data)

NewPostFields(form, title, slug, content, excerpt, featured_image, seo_data, v) ==
    NewPostChecked(form, title, slug, content, excerpt, featured_image, seo_data, v,
                   NewPostErrors(title, content, v))

NewPostForm(form, title, slug0, content, seo_data) ==
    NewPostFields(form, title, IF slug0 = <<>> THEN create_slug(title) ELSE slug0, content,
                  strip(form.excerpt), strip(form.featured_image), seo_data,
                  validate_seo_fields(seo_data))

\* POST /admin/seo/posts/new
admin_seo_new_post(form) ==
    NewPostForm(form, strip(form.title), strip(form.slug), strip(form.content), FormSeoData(form))

\* if title != post.title: new_slug = create_slug(title); if new_slug != post.slug: ...
EditPostChecked(post, form, title, content, seo_data, v, new_slug) ==
    IF title = <<>> \/ content = <<>>
    THEN Rejected("edit", form, "errors", <<Msg("Title and content are required!")>>, v)
    ELSE IF title # post.title /\ new_slug # post.slug /\ SlugTaken(new_slug, post.id)
    THEN Rejected("edit", form, "slug_exists", <<>>, v)
    ELSE Save("edit", form, v,
              [id |-> post.id, title |-> title,
               slug |-> IF title # post.title /\ new_slug # post.slug THEN new_slug ELSE post.slug,
               content |-> process_blog_content(content), excerpt |-> strip(form.excerpt),
               featured_image |-> strip(form.featured_image)],
              content, seo_data)

\* seo_warnings = validate_seo_fields(seo_data): the (errors, warnings) pair is
\* kept whole and its errors are never examined
EditPostForm(post, form, title, content, seo_data) ==
    EditPostChecked(post, form, title, content, seo_data, validate_seo_fields(seo_data),
                    create_slug(title))

\* POST /admin/seo/posts/<post_id>/edit
admin_seo_edit_post(post_id, form) ==
    EditPostForm(posts[post_id], form, strip(form.title), strip(form.content), FormSeoData(form))

-----------------------------------------------------------------------------
(* utils.py: YouTube                                                       *)

IdChars == Letters \cup Digits \cup {"_", "-"}
\* ([a-zA-Z0-9_-]{11})
Id11 == Rep(IdChars, FALSE, 11, 11)
\* . without re.DOTALL
Dot == {"\n"}
youtube_patterns == <<
    <<Alt(<< <<Lit(<<"y","o","u","t","u","b","e",".","c","o","m","/","w","a","t","c","h","?","v","=">>)>>,
             <<Lit(<<"y","o","u","t","u",".","b","e","/">>)>>,
             <<Lit(<<"y","o","u","t","u","b","e",".","c","o","m","/","e","m","b","e","d","/">>)>> >>), Id11>>,
    <<Lit(<<"y","o","u","t","u","b","e",".","c","o","m","/","w","a","t","c","h","?">>), Rep(Dot, TRUE, 0, Inf), Lit(<<"v","=">>), Id11>> >>

\* match.group(1) of the match that starts at i: the group is the last 11
\* characters of the match, and the greedy .* takes the match to its longest end
Group1(re, s, i) == Slice(s, Max(Ends(re, s, i, FALSE)) - 11, Max(Ends(re, s, i, FALSE)))

\* for pattern in patterns: match = re.search(pattern, url); if match: return match.group(1)
RECURSIVE FirstGroup(_, _, _)
GroupOrNext(patterns, k, url, i) ==
    IF i # 0 THEN Group1(patterns[k], url, i) ELSE FirstGroup(patterns, k + 1, url)
FirstGroup(patterns, k, url) ==
    IF k > Len(patterns) THEN None
    ELSE GroupOrNext(patterns, k, url, Search(patterns[k], url, 1, FALSE))

extract_youtube_video_id(url) ==
    IF Falsy(url) THEN None
    ELSE FirstGroup(youtube_patterns, 1, strip(url))

\* the f-string of the embed block: its text before and after {video_id}, each
\* kept as one element
VideoHtmlOpen == "\n<div class=\"youtube-video-container\" ...><div class=\"youtube-video-wrapper\" ...><iframe src=\"https://www.youtube.com/embed/"
VideoHtmlClose == "\" frameborder=\"0\" allow=\"...\" allowfullscreen style=\"...\"></iframe></div>\n</div>"
video_html(video_id) == <<VideoHtmlOpen>> \o video_id \o <<VideoHtmlClose>>

\* <(h[1-6])(?:\s[^>]*)?>
next_header_pattern == <<
    Lit(<<"<", "h">>), Cls({"1", "2", "3", "4", "5", "6"}),
    Alt(<< <<Lit(<<">">>)>>,
           <<Cls(Space), Rep({">"}, TRUE, 0, Inf), Lit(<<">">>)>> >>) >>

\* list(re.finditer(pattern, content, re.IGNORECASE)) for a literal pattern: the
\* ends of the non-overlapping matches, left to right
RECURSIVE MatchEnds(_, _, _)
MatchEndsAt(lit, content, from, i) ==
    IF i = 0 THEN <<>>
    ELSE <<i + Len(lit)>> \o MatchEnds(lit, content, i + Len(lit))
MatchEnds(lit, content, from) ==
    MatchEndsAt(lit, content, from, Search(<<Lit(lit)>>, content, from, TRUE))

\* (faulty variant: the whitespace before the next header is not skipped)
SkipBack_none(content, insert_position, end) == insert_position

\* while insert_position > end and content[insert_position - 1] in ' \n\r\t'
RECURSIVE SkipBack(_, _, _)
SkipBack(content, insert_position, end) ==
    IF insert_position > end /\ content[insert_position - 1] \in {" ", "\n", "\r", "\t"}
    THEN SkipBack(content, insert_position - 1, end)
    ELSE insert_position

\* (faulty variant: the character at the insert position is overwritten)
SpliceAt_overwriting(content, insert_position, html) ==
    Slice(content, 1, insert_position) \o html
        \o Slice(content, insert_position + 1, Len(content) + 1)

SpliceAt(content, insert_position, html) ==
    Slice(content, 1, insert_position) \o html \o Slice(content, insert_position, Len(content) + 1)

\* the embed placed after the heading end at second_end (a 1-based position)
InsertAfter(content, second_end, next_header, html) ==
    IF next_header # 0
    THEN SpliceAt(content, SkipBack(content, next_header, second_end), html)
    ELSE SpliceAt(content, second_end, html)

InsertByHeadings(content, h2_matches, h3_matches, html) ==
    IF Len(h2_matches) >= 2
    THEN InsertAfter(content, h2_matches[2],
                     Search(next_header_pattern, content, h2_matches[2], TRUE), html)
    ELSE IF Len(h3_matches) >= 2
    THEN InsertAfter(content, h3_matches[2],
                     Search(next_header_pattern, content, h3_matches[2], TRUE), html)
    ELSE content \o html

InsertVideo(content, video_id) ==
    IF video_id = None THEN content
    ELSE InsertByHeadings(content,
                          MatchEnds(<<"<","/","h","2",">">>, content, 1),
                          MatchEnds(<<"<","/","h","3",">">>, content, 1),
                          video_html(video_id))

\* (faulty variant: an unusable URL is not tested for)
insert_youtube_video_in_content_unguarded(content, youtube_url) ==
    IF Falsy(youtube_url) \/ Falsy(content) THEN content
    ELSE InsertByHeadings(content,
                          MatchEnds(<<"<","/","h","2",">">>, content, 1),
                          MatchEnds(<<"<","/","h","3",">">>, content, 1),
                          video_html(extract_youtube_video_id(youtube_url)))

insert_youtube_video_in_content(content, youtube_url) ==
    IF Falsy(youtube_url) \/ Falsy(content) THEN content
    ELSE InsertVideo(content, extract_youtube_video_id(youtube_url))

\* app.py, the process_content template filter
process_content_filter(content, youtube_url) ==
    IF ~Falsy(youtube_url)
    THEN insert_youtube_video_in_content(process_blog_content(content), youtube_url)
    ELSE process_blog_content(content)

-----------------------------------------------------------------------------
(* Inputs                                                                  *)

Fill(n) == [i \in 1..n |-> "x"]
\* n one-letter words separated by single spaces
Words(n) == [i \in 1..(2 * n - 1) |-> IF i % 2 = 1 THEN "w" ELSE " "]

H2(t) == <<"<","h","2",">">> \o t \o <<"<","/","h","2",">">>
H3(t) == <<"<","h","3",">">> \o t \o <<"<","/","h","3",">">>
P(t)  == <<"<","p",">">> \o t \o <<"<","/","p",">">>

Intro == <<"I","n","t","r","o">>
Seo == <<"s","e","o">>

\* the set of dicts holding key k with a value of vals, or no key k
OptField(k, vals) == {<<>>} \cup {(k :> v) : v \in vals}

ScorePosts ==
    [title : {<<>>, Fill(29), Fill(30), Fill(60), Fill(61)},
     slug : {<<>>, Fill(60), Fill(61)},
     content : {<<>>, Words(299), Words(300), Words(499), Words(500), Words(999), Words(1000),
                H2(Intro) \o P(Words(5)),
                H2(Intro) \o P(Words(5)) \o H3(Intro),
                H2(Intro) \o P(Words(5)) \o H3(Intro) \o <<"<","h","2"," ","i","d","=","a",">">> \o Intro},
     excerpt : {<<>>, Fill(3)},
     featured_image : {<<>>, Fill(3)}]

ScoreSeoData ==
    {a @@ b @@ c @@ d @@ e :
        a \in OptField("meta_description", {<<>>, Fill(119), Fill(120), Fill(155), Fill(156)}),
        b \in OptField("primary_keyword", {<<>>, Seo}),
        c \in OptField("keyword_density", {0, 49, 50, 99, 100, 250, 251, 300, 301}),
        d \in OptField("og_title", {<<>>, Fill(3)}),
        e \in OptField("og_description", {<<>>, Fill(3)})}

FewPosts ==
    {[title |-> <<>>, slug |-> <<>>, content |-> <<>>, excerpt |-> <<>>, featured_image |-> <<>>],
     [title |-> Fill(30), slug |-> Fill(3), content |-> H2(Intro) \o P(Words(5)) \o H2(Intro) \o H3(Intro),
      excerpt |-> Fill(3), featured_image |-> Fill(3)]}

FewSeoData ==
    {<<>>,
     [meta_description |-> Fill(120), primary_keyword |-> Seo, keyword_density |-> 100,
      og_title |-> Fill(3), og_description |-> Fill(3)]}

\* a post and a field set that earn every point of the rubric
BestPost ==
    [title |-> Fill(30), slug |-> Fill(3),
     content |-> H2(Intro) \o H2(Intro) \o H3(Intro) \o P(Words(1000)),
     excerpt |-> Fill(3), featured_image |-> Fill(3)]
ScoreInputs ==
    (ScorePosts \X FewSeoData) \cup (FewPosts \X ScoreSeoData) \cup ({BestPost} \X FewSeoData)

ValidateInputs ==
    {a @@ b @@ c @@ d @@ e @@ f :
        a \in OptField("primary_keyword", {<<>>, Seo}),
        b \in OptField("meta_title", {<<>>, Fill(60), Fill(61)}),
        c \in OptField("meta_description", {<<>>, Fill(155), Fill(156)}),
        d \in OptField("og_title", {<<>>, Fill(3)}),
        e \in OptField("og_description", {<<>>, Fill(3)}),
        f \in OptField("og_image", {<<>>, Fill(3)})}

\* Titles for the internal-link suggestions
LinkTitles == {
    <<"P","y","t","h","o","n"," ","W","e","b"," ","G","u","i","d","e">>,
    <<"p","y","t","h","o","n"," ","w","e","b"," ","t","i","p","s">>,
    <<"W","e","b"," ","g","u","i","d","e"," ","f","o","r"," ","p","y","t","h","o","n">>,
    <<"C","o","o","k","i","n","g"," ","t","i","p","s">> }

MaxOthers == 6

\* the other posts: ids 2, 3, ... in list order (the current post has id 1)
RECURSIVE TitleLists(_)
TitleLists(n) ==
    IF n = 0 THEN {<<>>}
    ELSE LET L == TitleLists(n - 1) IN L \cup {Append(l, t) : l \in {x \in L : Len(x) = n - 1}, t \in LinkTitles}
AsPosts(titles) == [i \in 1..Len(titles) |-> [id |-> i + 1, title |-> titles[i]]]

\* Documents for the searchable-content filter: up to MaxBlocks blocks
MaxBlocks == 3

Blocks == {
    H2(Intro),
    P(<<"H","e","l","l","o"," ","w","o","r","l","d">>),
    H2(<<"F","A","Q">>),
    P(<<"Q",":"," ","w","h","a","t","?"," ","A",":"," ","x">>),
    P(<<"t","h","e"," ","f","a","q"," ","p","a","g","e">>),
    H3(<<"M","o","r","e">>) }

RECURSIVE Docs(_)
Docs(n) == IF n = 0 THEN {<<>>}
           ELSE LET D == Docs(n - 1) IN D \cup {d \o b : d \in D, b \in Blocks}

\* Forms submitted to the admin handlers
DenseDoc == H2(Intro) \o P(Seo \o [i \in 1..78 |-> IF i % 2 = 1 THEN " " ELSE "x"])
MidDoc == P(Seo \o [i \in 1..66 |-> IF i % 2 = 1 THEN " " ELSE "x"])
PlainDoc == P(<<"h","i">>)

BaseForm ==
    [title |-> <<"S","e","o"," ","T","i","p","s">>, slug |-> <<>>, content |-> DenseDoc,
     excerpt |-> <<"e">>, featured_image |-> <<"f">>,
     primary_keyword |-> Seo, secondary_keywords |-> <<>>,
     meta_title |-> <<"S","e","o"," ","T","i","p","s">>, meta_description |-> <<"d">>,
     og_title |-> <<"o">>, og_description |-> <<"p">>, og_image |-> <<"i">>,
     twitter_title |-> <<>>, twitter_description |-> <<>>, twitter_image |-> <<>>,
     canonical_url |-> <<>>, schema_type |-> <<"A","r","t","i","c","l","e">>]

Forms == {
    BaseForm,
    [BaseForm EXCEPT !.og_title = <<>>, !.og_description = <<>>, !.og_image = <<>>],
    [BaseForm EXCEPT !.primary_keyword = <<>>],
    [BaseForm EXCEPT !.title = <<" ">>],
    [BaseForm EXCEPT !.title = <<"W","e","b"," ","G","u","i","d","e","!">>, !.content = MidDoc],
    [BaseForm EXCEPT !.slug = <<" ","m","y","-","s","l","u","g">>, !.content = PlainDoc,
                     !.excerpt = <<>>, !.featured_image = <<>>] }

-----------------------------------------------------------------------------
(* Specifications                                                          *)

NoCall == [fn |-> "none"]

AdminInit ==
    /\ posts = <<>>
    /\ post_seo = <<>>
    /\ next_id = 1
    /\ last = [op |-> "none", outcome |-> "none"]
    /\ post_images = {}
    /\ post_drafts = {}
    /\ post_categories = {}
    /\ files = {}

Init == AdminInit /\ call = NoCall

NewPost ==
    /\ \E form \in Forms : admin_seo_new_post(form)
    /\ UNCHANGED call

EditPost ==
    /\ \E post_id \in DOMAIN posts, form \in Forms : admin_seo_edit_post(post_id, form)
    /\ UNCHANGED call

Next == NewPost \/ EditPost

Spec == Init /\ [][Next]_vars

Pending(fn) == call.fn = fn /\ ~call.done
Done(fn) == call.fn = fn /\ call.done
AdminIdle == UNCHANGED <<posts, post_seo, next_id, last, children>>

\* calculate_seo_score on one (post, seo_data)
InitScore ==
    /\ AdminInit
    /\ call \in {[fn |-> "calculate_seo_score", post |-> x[1], seo_data |-> x[2], done |-> FALSE]
                    : x \in ScoreInputs}
CallScore ==
    /\ Pending("calculate_seo_score")
    /\ call' = [fn |-> call.fn, post |-> call.post, seo_data |-> call.seo_data, done |-> TRUE,
                result |-> calculate_seo_score(call.post, call.seo_data)]
    /\ AdminIdle
SpecScore == InitScore /\ [][CallScore]_vars

\* validate_seo_fields on one field set
InitValidate ==
    /\ AdminInit
    /\ call \in {[fn |-> "validate_seo_fields", seo_data |-> d, done |-> FALSE] : d \in ValidateInputs}
CallValidate ==
    /\ Pending("validate_seo_fields")
    /\ call' = [fn |-> call.fn, seo_data |-> call.seo_data, done |-> TRUE,
                result |-> validate_seo_fields(call.seo_data)]
    /\ AdminIdle
SpecValidate == InitValidate /\ [][CallValidate]_vars

\* generate_internal_link_suggestions as admin_seo_post_detail calls it: the
\* current post's title and all the other posts
InitLinks ==
    /\ AdminInit
    /\ call \in {[fn |-> "generate_internal_link_suggestions", post_title |-> t,
                  all_posts |-> AsPosts(l), done |-> FALSE]
                    : t \in LinkTitles, l \in TitleLists(MaxOthers)}
CallLinks ==
    /\ Pending("generate_internal_link_suggestions")
    /\ call' = [fn |-> call.fn, post_title |-> call.post_title, all_posts |-> call.all_posts,
                done |-> TRUE,
                result |-> generate_internal_link_suggestions(call.post_title, call.all_posts)]
    /\ AdminIdle
SpecLinks == InitLinks /\ [][CallLinks]_vars

\* extract_searchable_content on one document
InitSearch ==
    /\ AdminInit
    /\ call \in {[fn |-> "extract_searchable_content", content |-> d, done |-> FALSE]
                    : d \in Docs(MaxBlocks)}
CallSearch ==
    /\ Pending("extract_searchable_content")
    /\ call' = [fn |-> call.fn, content |-> call.content, done |-> TRUE,
                result |-> extract_searchable_content(call.content)]
    /\ AdminIdle
SpecSearch == InitSearch /\ [][CallSearch]_vars

-----------------------------------------------------------------------------
(* reprocess_posts.py: the stored content of one post, re-processed         *)

MaxRuns == 3
MaxRawBlocks == 2

ImgTag(src) == <<"<","i","m","g"," ","s","r","c","=","\"">> \o src \o <<"\"", ">">>
ATag(href, attrs) == <<"<","a"," ","h","r","e","f","=","\"">> \o href \o <<"\"">> \o attrs \o <<">","x","<","/","a",">">>
NewTabAttrs == <<" ","t","a","r","g","e","t","=","\"","_","b","l","a","n","k","\""," ","r","e","l","=","\"","n","o","o","p","e","n","e","r"," ","n","o","r","e","f","e","r","r","e","r","\"">>
RawBlocks == <<
    ImgTag(<<"s","t","a","t","i","c","/","a",".","p","n","g">>),
    ImgTag(<<"/","s","t","a","t","i","c","/","a",".","p","n","g">>),
    ImgTag(<<"h","t","t","p",":","/","/","c",".","i","o","/","a",".","p","n","g">>),
    ATag(<<"h","t","t","p","s",":","/","/","o","t","h","e","r",".","o","r","g","/","x">>, <<>>),
    ATag(<<"h","t","t","p","s",":","/","/","o","t","h","e","r",".","o","r","g","/","x">>, NewTabAttrs),
    ATag(<<"h","t","t","p","s",":","/","/","b","l","o","g",".","e","x","a","m","p","l","e","/","y">>, <<>>),
    ATag(<<"/","a","b","o","u","t">>, <<>>),
    P(<<"H","e","l","l","o">>) >>
RECURSIVE RawDocs(_)
RawDocs(n) ==
    IF n = 0 THEN {<<>>}
    ELSE RawDocs(n - 1) \cup {d \o RawBlocks[b] : d \in RawDocs(n - 1), b \in DOMAIN RawBlocks}

\* the content as first submitted (runs = 0), then process_blog_content applied
\* to the stored content on the save and on every later reprocess_all_posts
InitNormalize ==
    /\ AdminInit
    /\ call \in {[fn |-> "reprocess_all_posts", content |-> d, runs |-> 0, done |-> FALSE]
                    : d \in RawDocs(MaxRawBlocks)}
Reprocess ==
    /\ call.fn = "reprocess_all_posts"
    /\ call.runs < MaxRuns
    /\ call' = [fn |-> call.fn, content |-> process_blog_content(call.content),
                runs |-> call.runs + 1, done |-> TRUE]
    /\ AdminIdle
SpecNormalize == InitNormalize /\ [][Reprocess]_vars

-----------------------------------------------------------------------------
(* The core functions called with None, empty and ordinary string arguments *)

StringArgs == {None, <<>>, Seo, H2(Intro) \o P(<<"s","e","o"," ","t","i","p","s">>), <<"h","t","t","p","s",":","/","/","y","o","u","t","u",".","b","e","/","d","Q","w","4","w","9","W","g","X","c","Q">>}
OneArgFns == {"calculate_word_count", "calculate_reading_time", "extract_headings",
              "extract_searchable_content", "extract_youtube_video_id",
              "generate_internal_link_suggestions"}
TwoArgFns == {"calculate_keyword_density", "generate_og_tags", "generate_twitter_tags",
              "insert_youtube_video_in_content"}
\* the other posts handed to generate_internal_link_suggestions
SomePosts == AsPosts(<<<<"S","e","o"," ","t","i","p","s">>, <<"W","e","b"," ","g","u","i","d","e">>>>)

CoreCall(fn, a) ==
    CASE fn = "calculate_word_count" -> Returned(calculate_word_count(a[1]))
      [] fn = "calculate_reading_time" -> Returned(calculate_reading_time(a[1]))
      [] fn = "extract_headings" -> Returned(extract_headings(a[1]))
      [] fn = "extract_searchable_content" -> Returned(extract_searchable_content(a[1]))
      [] fn = "extract_youtube_video_id" -> Returned(extract_youtube_video_id(a[1]))
      [] fn = "generate_internal_link_suggestions" ->
            try_generate_internal_link_suggestions(a[1], SomePosts)
      [] fn = "calculate_keyword_density" -> Returned(calculate_keyword_density(a[1], a[2]))
      [] fn = "generate_og_tags" -> generate_og_tags(a[1], a[2])
      [] fn = "generate_twitter_tags" -> generate_twitter_tags(a[1], a[2])
      [] fn = "insert_youtube_video_in_content" ->
            Returned(insert_youtube_video_in_content(a[1], a[2]))

InitCore ==
    /\ AdminInit
    /\ call \in {[fn |-> "core", name |-> f, args |-> <<x>>, done |-> FALSE]
                    : f \in OneArgFns, x \in StringArgs}
          \cup  {[fn |-> "core", name |-> f, args |-> <<x, y>>, done |-> FALSE]
                    : f \in TwoArgFns, x \in StringArgs, y \in StringArgs}
CallCore ==
    /\ Pending("core")
    /\ call' = [fn |-> call.fn, name |-> call.name, args |-> call.args, done |-> TRUE,
                result |-> CoreCall(call.name, call.args)]
    /\ AdminIdle
SpecCore == InitCore /\ [][CallCore]_vars

-----------------------------------------------------------------------------
(* extract_youtube_video_id and insert_youtube_video_in_content             *)

VideoIds == {<<"d","Q","w","4","w","9","W","g","X","c","Q">>, <<"a","-","b","_","c","1","2","3","X","Y","Z">>}
\* query parameters before and after v=
ParamsBefore == {<<>>, <<"f","e","a","t","u","r","e","=","s","h","a","r","e","&">>, <<"t","=","1","&">>}
ParamsAfter == {<<>>, <<"&","f","e","a","t","u","r","e","=","s","h","a","r","e">>, <<"&","t","=","1","0">>, <<"&","r","v","=","A","A","A","A","A","A","A","A","A","A","A">>}
Padding == {<<>>, <<" ">>}
WatchUrls == {<<"h","t","t","p","s",":","/","/","w","w","w",".","y","o","u","t","u","b","e",".","c","o","m","/","w","a","t","c","h","?">> \o b \o <<"v","=">> \o id \o a
                : b \in ParamsBefore, id \in VideoIds, a \in ParamsAfter}
ShortUrls == {<<"h","t","t","p","s",":","/","/","y","o","u","t","u",".","b","e","/">> \o id \o a : id \in VideoIds, a \in {<<>>, <<"?","t","=","1","0">>}}
EmbedUrls == {<<"h","t","t","p","s",":","/","/","w","w","w",".","y","o","u","t","u","b","e",".","c","o","m","/","e","m","b","e","d","/">> \o id \o a : id \in VideoIds, a \in {<<>>, <<"?","r","e","l","=","0">>}}
OtherUrls == {<<>>, <<"h","t","t","p","s",":","/","/","v","i","m","e","o",".","c","o","m","/","1">>, <<"h","t","t","p","s",":","/","/","w","w","w",".","y","o","u","t","u","b","e",".","c","o","m","/","w","a","t","c","h","?","v","=","s","h","o","r","t">>,
              <<"h","t","t","p","s",":","/","/","w","w","w",".","y","o","u","t","u","b","e",".","c","o","m","/">>}
Urls == {p \o u \o p : p \in Padding, u \in WatchUrls \cup ShortUrls \cup EmbedUrls} \cup OtherUrls

InitVideoId ==
    /\ AdminInit
    /\ call \in {[fn |-> "extract_youtube_video_id", url |-> u, done |-> FALSE] : u \in Urls}
CallVideoId ==
    /\ Pending("extract_youtube_video_id")
    /\ call' = [fn |-> call.fn, url |-> call.url, done |-> TRUE,
                result |-> extract_youtube_video_id(call.url)]
    /\ AdminIdle
SpecVideoId == InitVideoId /\ [][CallVideoId]_vars

MaxYtBlocks == 4
YtBlocks == <<
    H2(<<"A">>),
    <<"<","H","2",">","C","<","/","H","2",">">>,
    H3(<<"B">>),
    P(<<"1">>),
    <<" ", "\n">>,
    <<"<","h","1",">","T","<","/","h","1",">">>,
    <<"<","h","4"," ","c","l","a","s","s","=","\"","x","\"",">","D","<","/","h","4",">">> >>
RECURSIVE YtDocs(_)
YtDocs(n) ==
    IF n = 0 THEN {<<>>}
    ELSE YtDocs(n - 1) \cup {d \o YtBlocks[b] : d \in YtDocs(n - 1), b \in DOMAIN YtBlocks}
YtUrls == {None, <<>>, <<"h","t","t","p","s",":","/","/","y","o","u","t","u",".","b","e","/","d","Q","w","4","w","9","W","g","X","c","Q">>, <<"h","t","t","p","s",":","/","/","v","i","m","e","o",".","c","o","m","/","1">>}

\* Post.content is a NOT NULL column: the template filter gets a string
InitInsert ==
    /\ AdminInit
    /\ call \in {[fn |-> f, content |-> d, youtube_url |-> u, done |-> FALSE]
                    : f \in {"insert_youtube_video_in_content", "process_content_filter"},
                      d \in YtDocs(MaxYtBlocks), u \in YtUrls}
CallInsert ==
    /\ Pending("insert_youtube_video_in_content")
    /\ call' = [fn |-> call.fn, content |-> call.content, youtube_url |-> call.youtube_url,
                done |-> TRUE,
                result |-> insert_youtube_video_in_content(call.content, call.youtube_url)]
    /\ AdminIdle
CallFilter ==
    /\ Pending("process_content_filter")
    /\ call' = [fn |-> call.fn, content |-> call.content, youtube_url |-> call.youtube_url,
                done |-> TRUE,
                result |-> process_content_filter(call.content, call.youtube_url)]
    /\ AdminIdle
SpecInsert == InitInsert /\ [][CallInsert \/ CallFilter]_vars

-----------------------------------------------------------------------------
(* Word count and reading time                                             *)

Div(t) == <<"<","d","i","v",">">> \o t \o <<"<","/","d","i","v",">">>
Li(t) == <<"<","l","i",">">> \o t \o <<"<","/","l","i",">">>
TextBlocks == {P(<<"a">>), P(<<"b"," ","c">>), P(<<>>), P(<<"a"," ">>), P(<<" ","b">>), H2(Intro), H3(<<"M","o","r","e"," ","t","e","x","t">>),
               Div(<<"d">>), Li(<<"e"," ","f">>), <<"<","p"," ","c","l","a","s","s","=","\"","x","\"",">","g","<","/","p",">">>}

\* the word counts of two adjacent blocks
InitWords ==
    /\ AdminInit
    /\ call \in {[fn |-> "calculate_word_count", first |-> a, second |-> b, done |-> FALSE]
                    : a \in TextBlocks, b \in TextBlocks}
CallWords ==
    /\ Pending("calculate_word_count")
    /\ call' = [fn |-> call.fn, first |-> call.first, second |-> call.second, done |-> TRUE,
                result |-> [word_count |-> calculate_word_count(call.first \o call.second),
                            post_word_count |-> Post_word_count([content |-> call.first \o call.second])]]
    /\ AdminIdle
SpecWords == InitWords /\ [][CallWords]_vars

WordNumbers == {0, 1, 2, 3, 5, 99, 100, 101, 299, 300, 301, 499, 500, 501, 700}
Rates == {1, 2, 3, 4, 100, 200, 250}
ReadingContents == {None} \cup {IF n = 0 THEN <<>> ELSE P(Words(n)) : n \in WordNumbers}

InitReading ==
    /\ AdminInit
    /\ call \in {[fn |-> "calculate_reading_time", html_content |-> c, wpm |-> w, done |-> FALSE]
                    : c \in ReadingContents, w \in Rates}
CallReading ==
    /\ Pending("calculate_reading_time")
    /\ call' = [fn |-> call.fn, html_content |-> call.html_content, wpm |-> call.wpm, done |-> TRUE,
                result |-> [reading_time |-> calculate_reading_time_wpm(call.html_content, call.wpm),
                            post_reading_time |->
                                Post_reading_time([content |-> process_blog_content(call.html_content)])]]
    /\ AdminIdle
SpecReading == InitReading /\ [][CallReading]_vars

-----------------------------------------------------------------------------
(* seo_utils.py: the SEO field generators                                  *)

\* `sub in s`
Contains(s, sub) == Search(<<Lit(sub)>>, s, 1, FALSE) # 0
\* s.rsplit(' ', 1)[0]
RsplitHead(s) ==
    IF \A i \in DOMAIN s : s[i] # " " THEN s
    ELSE SubSeq(s, 1, Max({i \in DOMAIN s : s[i] = " "}) - 1)

\* If keyword provided and not in title, add it
WithKeyword(title, keyword, max_length) ==
    IF ~Falsy(keyword) /\ ~Contains(Lower(title), Lower(keyword))
    THEN IF Len(title) + Len(keyword) + 5 <= max_length
         THEN title \o <<" ","-"," ">> \o keyword \o <<" ","G","u","i","d","e">>
         ELSE IF Len(title) + Len(keyword) + 3 <= max_length
         THEN title \o <<" ","-"," ">> \o keyword
         ELSE title
    ELSE title

\* (faulty variant: the cut is not moved back to a word boundary)
TruncateWords_plain(title, max_length) ==
    IF Len(title) > max_length THEN Slice(title, 1, max_length + 1) ELSE title

\* Truncate if too long
TruncateWords(title, max_length) ==
    IF Len(title) > max_length THEN RsplitHead(Slice(title, 1, max_length + 1)) ELSE title

generate_meta_title(title, keyword, max_length) ==
    IF Falsy(title) THEN <<>>
    ELSE TruncateWords(WithKeyword(title, keyword, max_length), max_length)

MetaTitles == {<<>>, <<"W","e","b">>, <<"M","y"," ","P","o","s","t">>, <<"L","e","a","r","n"," ","S","E","O"," ","n","o","w">>, Fill(48), Fill(49), Fill(52),
               Fill(53), Fill(54), Fill(55), Fill(61), Words(24), Words(25), Words(26),
               Words(27), Words(28), Words(40)}
MetaKeywords == {None, <<>>, Seo, <<"P","y","t","h","o","n">>, <<"w">>}
MetaLengths == {20, 60}
InitMetaTitle ==
    /\ AdminInit
    /\ call \in {[fn |-> "generate_meta_title", title |-> t, keyword |-> k, max_length |-> m,
                  done |-> FALSE] : t \in MetaTitles, k \in MetaKeywords, m \in MetaLengths}
CallMetaTitle ==
    /\ Pending("generate_meta_title")
    /\ call' = [fn |-> call.fn, title |-> call.title, keyword |-> call.keyword,
                max_length |-> call.max_length, done |-> TRUE,
                result |-> generate_meta_title(call.title, call.keyword, call.max_length)]
    /\ AdminIdle
SpecMetaTitle == InitMetaTitle /\ [][CallMetaTitle]_vars

\* ' '.join(text.split())
NormalizeSpaces(text) == Sub(<<Ws1>>, <<" ">>, strip(text), FALSE)
\* s.find(sub), from 0; -1 when absent
Find(s, sub) == Search(<<Lit(sub)>>, s, 1, FALSE) - 1

\* Try to include keyword if provided
AroundKeyword(text, keyword) ==
    IF ~Falsy(keyword) /\ Contains(Lower(text), Lower(keyword))
    THEN IF Find(Lower(text), Lower(keyword)) < 100
         THEN Slice(text, PyMax(0, Find(Lower(text), Lower(keyword)) - 20) + 1, Len(text) + 1)
         ELSE text
    ELSE text

\* Truncate at word boundary
Ellipsis(truncated) ==
    IF truncated # <<>> /\ truncated[Len(truncated)] \in {".", "!", "?"}
    THEN truncated ELSE truncated \o <<".",".",".">>
TruncateDescription(text, max_length) ==
    IF Len(text) <= max_length THEN text
    ELSE Ellipsis(RsplitHead(Slice(text, 1, max_length + 1)))

generate_meta_description(content, max_length, keyword) ==
    IF Falsy(content) THEN <<>>
    ELSE TruncateDescription(AroundKeyword(NormalizeSpaces(get_text(content)), keyword),
                             max_length)

MetaContents == {None, <<>>, P(<<"H","e","l","l","o"," "," ","w","o","r","l","d">>), P(Fill(155)), P(Fill(156)), P(Fill(200)),
                 P(Words(78)), P(Words(100)), P(Fill(150) \o <<"."," ","n","e","x","t"," ","w","o","r","d","s"," ","h","e","r","e">>),
                 P(Fill(30) \o <<" ","s","e","o"," ">> \o Words(100)), P(Fill(120) \o <<" ","s","e","o"," ">> \o Words(50)),
                 H2(Seo) \o P(Words(100))}
InitMetaDescription ==
    /\ AdminInit
    /\ call \in {[fn |-> "generate_meta_description", content |-> c, keyword |-> k,
                  max_length |-> m, done |-> FALSE] :
                 c \in MetaContents, k \in MetaKeywords, m \in {20, 155}}
CallMetaDescription ==
    /\ Pending("generate_meta_description")
    /\ call' = [fn |-> call.fn, content |-> call.content, keyword |-> call.keyword,
                max_length |-> call.max_length, done |-> TRUE,
                result |-> generate_meta_description(call.content, call.max_length,
                                                     call.keyword)]
    /\ AdminIdle
SpecMetaDescription == InitMetaDescription /\ [][CallMetaDescription]_vars

\* Remove common words
stop_words ==
    {<<"t","h","e">>, <<"a">>, <<"a","n">>, <<"a","n","d">>, <<"o","r">>, <<"b","u","t">>, <<"i","n">>, <<"o","n">>, <<"a","t">>, <<"t","o">>,
     <<"f","o","r">>, <<"o","f">>, <<"w","i","t","h">>, <<"b","y">>, <<"f","r","o","m">>, <<"a","s">>, <<"i","s">>, <<"w","a","s">>, <<"a","r","e">>,
     <<"w","e","r","e">>, <<"b","e","e","n">>, <<"b","e">>, <<"h","a","v","e">>, <<"h","a","s">>, <<"h","a","d">>, <<"d","o">>, <<"d","o","e","s">>, <<"d","i","d">>,
     <<"w","i","l","l">>, <<"w","o","u","l","d">>, <<"s","h","o","u","l","d">>, <<"c","o","u","l","d">>, <<"m","a","y">>, <<"m","i","g","h","t">>, <<"m","u","s","t">>, <<"c","a","n">>,
     <<"t","h","i","s">>, <<"t","h","a","t">>, <<"t","h","e","s","e">>, <<"t","h","o","s","e">>, <<"w","h","a","t">>, <<"w","h","i","c","h">>, <<"w","h","o">>, <<"w","h","o","m">>,
     <<"w","h","o","s","e">>, <<"w","h","e","r","e">>, <<"w","h","e","n">>, <<"w","h","y">>, <<"h","o","w">>, <<"a","l","l">>, <<"e","a","c","h">>, <<"e","v","e","r","y">>,
     <<"b","o","t","h">>, <<"f","e","w">>, <<"m","o","r","e">>, <<"m","o","s","t">>, <<"o","t","h","e","r">>, <<"s","o","m","e">>, <<"s","u","c","h">>, <<"n","o">>,
     <<"n","o","r">>, <<"n","o","t">>, <<"o","n","l","y">>, <<"o","w","n">>, <<"s","a","m","e">>, <<"s","o">>, <<"t","h","a","n">>, <<"t","o","o">>, <<"v","e","r","y">>,
     <<"j","u","s","t">>, <<"n","o","w">>}

\* \b before s[i]: exactly one of s[i-1], s[i] is a word character
IsWordAt(s, i) == i \in DOMAIN s /\ s[i] \in WordChars
WordBoundary(s, i) == IsWordAt(s, i - 1) # IsWordAt(s, i)
\* the ends of the matches of \b[a-zA-Z]{n,}\b that start at i
LetterTokenEnds(s, i, n) ==
    {j \in (i + n - 1)..Len(s) :
        /\ WordBoundary(s, i)
        /\ \A k \in i..j : s[k] \in Letters
        /\ WordBoundary(s, j + 1)}
\* re.findall(r'\b[a-zA-Z]{n,}\b', s): the matches, by start
LetterTokens(s, n) ==
    [i \in {i \in DOMAIN s : LetterTokenEnds(s, i, n) # {}} |->
        SubSeq(s, i, Max(LetterTokenEnds(s, i, n)))]
\* keywords = [w for w in words if w not in stop_words], by start
Keywords(s) ==
    [i \in {i \in DOMAIN LetterTokens(s, 3) : LetterTokens(s, 3)[i] \notin stop_words} |->
        LetterTokens(s, 3)[i]]

\* (faulty variant: of the longest keywords the last one is taken)
FirstLongest_last(keywords) ==
    keywords[CHOOSE i \in DOMAIN keywords : \A j \in DOMAIN keywords :
        \/ Len(keywords[j]) < Len(keywords[i])
        \/ Len(keywords[j]) = Len(keywords[i]) /\ j <= i]

\* keywords.sort(key=len, reverse=True); keywords[0]: the sort is stable
FirstLongest(keywords) ==
    keywords[CHOOSE i \in DOMAIN keywords : \A j \in DOMAIN keywords :
        \/ Len(keywords[j]) < Len(keywords[i])
        \/ Len(keywords[j]) = Len(keywords[i]) /\ i <= j]

UpperCh(c) == IF c \in LowerSet THEN Uppers[CHOOSE i \in 1..26 : Lowers[i] = c] ELSE c
\* str.title() of a word of lowercase letters
TitleCase(w) == [i \in DOMAIN w |-> IF i = 1 THEN UpperCh(w[i]) ELSE w[i]]

\* re.sub(r'[^\w]', '', word)
CleanWord(word) == SelectSeq(word, LAMBDA c : c \in WordChars)
IsSignificant(word) ==
    Len(CleanWord(word)) >= 3 /\ Lower(CleanWord(word)) \notin stop_words
\* Fallback: use first significant word from title
FirstSignificantWord(title) ==
    LET starts == {i \in WordStarts(title) :
                      IsSignificant(SubSeq(title, i, WordEnd(title, i)))}
    IN IF starts = {} THEN <<>>
       ELSE CleanWord(SubSeq(title, Min(starts), WordEnd(title, Min(starts))))

extract_primary_keyword(title) ==
    IF Falsy(title) THEN <<>>
    ELSE IF DOMAIN Keywords(Lower(title)) # {}
    THEN TitleCase(FirstLongest(Keywords(Lower(title))))
    ELSE FirstSignificantWord(title)

TitleWords == {<<"t","h","e">>, <<"s","e","o">>, <<"P","y","t","h","o","n">>, <<"g","u","i","d","e","!">>, <<"w","e","b">>, <<"T","o","p","1","0">>, <<"i","t","'","s">>,
               <<"T","I","P","S">>, <<"d","o","n","'","t">>, <<"n","o","w","_">>}
MaxTitleWords == 3
RECURSIVE TitlesOf(_)
TitlesOf(n) ==
    IF n = 1 THEN TitleWords
    ELSE TitlesOf(n - 1) \cup {t \o <<" ">> \o w : t \in TitlesOf(n - 1), w \in TitleWords}
InitPrimaryKeyword ==
    /\ AdminInit
    /\ call \in {[fn |-> "extract_primary_keyword", title |-> t, done |-> FALSE] :
                 t \in {None, <<>>} \cup TitlesOf(MaxTitleWords)}
CallPrimaryKeyword ==
    /\ Pending("extract_primary_keyword")
    /\ call' = [fn |-> call.fn, title |-> call.title, done |-> TRUE,
                result |-> extract_primary_keyword(call.title)]
    /\ AdminIdle
SpecPrimaryKeyword == InitPrimaryKeyword /\ [][CallPrimaryKeyword]_vars

\* Common heading patterns with keyword
heading_patterns(keyword) ==
    <<<<"W","h","a","t"," ","i","s"," ">> \o keyword \o <<"?">>,
      <<"H","o","w"," ","t","o"," ">> \o keyword,
      keyword \o <<" ","G","u","i","d","e">>,
      keyword \o <<" ","T","u","t","o","r","i","a","l">>,
      keyword \o <<" ","B","e","s","t"," ","P","r","a","c","t","i","c","e","s">>,
      keyword \o <<" ","E","x","a","m","p","l","e","s">>,
      <<"B","e","n","e","f","i","t","s"," ","o","f"," ">> \o keyword,
      keyword \o <<" ","T","i","p","s">>>>
\* existing_texts = [h['text'].lower() for h in existing_headings]
existing_texts(existing_headings) ==
    {Lower(existing_headings[i].text) : i \in DOMAIN existing_headings}

\* (faulty variant: the comparison with the existing headings minds the case)
NewPatterns_cased(texts, keyword) ==
    SelectSeq(heading_patterns(keyword), LAMBDA pattern : pattern \notin texts)

\* Filter out patterns that already exist
NewPatterns(texts, keyword) ==
    SelectSeq(heading_patterns(keyword), LAMBDA pattern : Lower(pattern) \notin texts)

HeadingSuggestion(pattern) ==
    [text |-> pattern, level |-> <<"h","2">>, reason |-> <<"C","o","m","m","o","n"," ","S","E","O"," ","p","a","t","t","e","r","n">>]
\* suggestions[:5]
Top5Suggestions(patterns) ==
    [i \in 1..PyMin(5, Len(patterns)) |-> HeadingSuggestion(patterns[i])]
suggest_headings(content, keyword) ==
    IF Falsy(content) \/ Falsy(keyword) THEN <<>>
    ELSE Top5Suggestions(NewPatterns(existing_texts(extract_headings(content)), keyword))

HeadingBlocks == <<H2(<<"w","h","a","t"," ","i","s"," ","s","e","o","?">>), H3(<<"H","o","w"," ","T","o"," ","S","E","O">>), P(<<"s","e","o"," ","G","u","i","d","e">>),
                   H2(<<" ","s","e","o"," ","t","u","t","o","r","i","a","l"," ">>), H3(<<"S","e","o"," ","E","x","a","m","p","l","e","s">>), H2(<<"S","E","O"," ","T","I","P","S">>)>>
RECURSIVE Concat(_, _)
\* the blocks numbered in S, in their order from block i on
Concat(S, i) ==
    IF i > Len(HeadingBlocks) THEN <<>>
    ELSE (IF i \in S THEN HeadingBlocks[i] ELSE <<>>) \o Concat(S, i + 1)
HeadingDocs == {None} \cup {Concat(S, 1) : S \in SUBSET DOMAIN HeadingBlocks}
InitSuggest ==
    /\ AdminInit
    /\ call \in {[fn |-> "suggest_headings", content |-> c, keyword |-> k, done |-> FALSE] :
                 c \in HeadingDocs, k \in {None, <<>>, Seo, <<"S","e","o">>}}
CallSuggest ==
    /\ Pending("suggest_headings")
    /\ call' = [fn |-> call.fn, content |-> call.content, keyword |-> call.keyword,
                done |-> TRUE, result |-> suggest_headings(call.content, call.keyword)]
    /\ AdminIdle
SpecSuggest == InitSuggest /\ [][CallSuggest]_vars

(* seo_utils.py: calculate_keyword_density on one (content, keyword)       *)
DensityContents == {None, <<>>, P(<<"b","a","n","a","n","a">>), P(<<"S","E","O"," ","t","i","p","s"," ","a","n","d"," ","s","e","o"," ","t","r","i","c","k","s">>), P(<<"s","e","o","s","e","o"," ","s","e","o">>),
                    H2(Seo) \o P(Words(5)), P(<<"a"," ","b"," ","c">>), P(Seo) \o P(Seo), P(<<" "," ">>),
                    P(Words(40) \o <<" ","s","e","o">>)}
DensityKeywords == {None, <<>>, <<"a">>, Seo, <<"S","E","O"," ","T","i","p","s">>, <<"w">>}
InitDensity ==
    /\ AdminInit
    /\ call \in {[fn |-> "calculate_keyword_density", content |-> c, keyword |-> k,
                  done |-> FALSE] : c \in DensityContents, k \in DensityKeywords}
CallDensity ==
    /\ Pending("calculate_keyword_density")
    /\ call' = [fn |-> call.fn, content |-> call.content, keyword |-> call.keyword,
                done |-> TRUE,
                result |-> calculate_keyword_density(call.content, call.keyword)]
    /\ AdminIdle
SpecDensity == InitDensity /\ [][CallDensity]_vars

(* seo_utils.py: generate_secondary_keywords                               *)
\* Common secondary keyword patterns
secondary_patterns(primary_keyword) ==
    <<primary_keyword \o <<" ","t","u","t","o","r","i","a","l">>,
      primary_keyword \o <<" ","g","u","i","d","e">>,
      primary_keyword \o <<" ","t","i","p","s">>,
      <<"l","e","a","r","n"," ">> \o primary_keyword,
      primary_keyword \o <<" ","b","e","s","t"," ","p","r","a","c","t","i","c","e","s">>,
      primary_keyword \o <<" ","e","x","a","m","p","l","e","s">>,
      <<"h","o","w"," ","t","o"," ">> \o primary_keyword,
      primary_keyword \o <<" ","f","o","r"," ","b","e","g","i","n","n","e","r","s">>>>

\* Counter(words).most_common(n): by count, the greatest first; words of the
\* same count in the order of their first occurrence
Freq(words, w) == Cardinality({i \in DOMAIN words : words[i] = w})
FirstAt(words, w) == Min({i \in DOMAIN words : words[i] = w})
Rank(words, w) ==
    Cardinality({v \in {words[i] : i \in DOMAIN words} :
        \/ Freq(words, v) > Freq(words, w)
        \/ Freq(words, v) = Freq(words, w) /\ FirstAt(words, v) < FirstAt(words, w)})
most_common(words, n) ==
    [r \in 1..PyMin(n, Cardinality({words[i] : i \in DOMAIN words})) |->
        CHOOSE w \in {words[i] : i \in DOMAIN words} : Rank(words, w) = r - 1]
\* Get top words that aren't the primary keyword
top_words(words, primary_keyword) ==
    SelectSeq(most_common(words, 10),
              LAMBDA w : w # Lower(primary_keyword) /\ Len(w) >= 4)
\* for word in top_words[:3]: the two combinations of each
Combinations(primary_keyword, top) ==
    [i \in 1..(2 * PyMin(3, Len(top))) |->
        IF i % 2 = 1 THEN primary_keyword \o <<" ">> \o top[(i + 1) \div 2]
        ELSE top[i \div 2] \o <<" ">> \o primary_keyword]
ContentPatterns(primary_keyword, content) ==
    IF Falsy(content) THEN <<>>
    ELSE Combinations(primary_keyword,
                      top_words(LetterTokens(Lower(get_text(content)), 4), primary_keyword))

\* seq[:count]
SliceTo(seq, count) ==
    IF count >= 0 THEN SubSeq(seq, 1, PyMin(count, Len(seq)))
    ELSE SubSeq(seq, 1, Len(seq) + count)
\* sep.join(parts)
RECURSIVE Join(_, _)
Join(parts, sep) ==
    IF parts = <<>> THEN <<>>
    ELSE IF Len(parts) = 1 THEN parts[1]
    ELSE parts[1] \o sep \o Join(Tail(parts), sep)

\* (faulty variant: the content-derived patterns come first)
AllPatterns_content_first(primary_keyword, content) ==
    ContentPatterns(primary_keyword, content) \o secondary_patterns(primary_keyword)

AllPatterns(primary_keyword, content) ==
    secondary_patterns(primary_keyword) \o ContentPatterns(primary_keyword, content)

generate_secondary_keywords(primary_keyword, content, count) ==
    IF Falsy(primary_keyword) THEN <<>>
    ELSE Join(SliceTo(AllPatterns(primary_keyword, content), count), <<","," ">>)

SecondaryPrimaries == {None, <<>>, Seo, <<"P","y","t","h","o","n">>}
SecondaryContents == {None, <<>>, P(<<"l","e","a","r","n"," ","p","y","t","h","o","n"," ","t","i","p","s"," ","t","i","p","s"," ","c","o","d","e">>),
                      P(<<"s","e","o"," ","S","E","O"," ","t","o","o","l","s"," ","t","o","o","l","s"," ","t","o","o","l","s"," ","r","a","n","k"," ","r","a","n","k"," ","p","a","g","e">>),
                      H2(<<"B","e","s","t"," ","t","o","o","l","s">>) \o P(<<"t","o","o","l","s"," ","h","e","l","p">>), P(<<"a"," ","w","e","b"," ","o","f"," ","i","t">>)}
SecondaryCounts == {-1, 0, 1, 5, 8, 9, 11, 14}
\* two calls that differ in the content
InitSecondary ==
    /\ AdminInit
    /\ call \in {[fn |-> "generate_secondary_keywords", primary_keyword |-> p,
                  contents |-> c, count |-> n, done |-> FALSE] :
                 p \in SecondaryPrimaries, c \in SecondaryContents \X SecondaryContents,
                 n \in SecondaryCounts}
CallSecondary ==
    /\ Pending("generate_secondary_keywords")
    /\ call' = [fn |-> call.fn, primary_keyword |-> call.primary_keyword,
                contents |-> call.contents, count |-> call.count, done |-> TRUE,
                result |-> [i \in 1..2 |->
                    generate_secondary_keywords(call.primary_keyword, call.contents[i],
                                                call.count)]]
    /\ AdminIdle
SpecSecondary == InitSecondary /\ [][CallSecondary]_vars

-----------------------------------------------------------------------------
(* admin_seo.py: POST /admin/seo/posts/<post_id>/delete                     *)
(*                                                                         *)
(* The table variables hold the session's view of the database; the state  *)
(* of the last commit is kept in call.before and comes back on rollback.   *)
(* A statement sent to the database either takes effect or raises; the     *)
(* handler catches what its try blocks catch.  call.foreign_keys tells     *)
(* whether the database enforces the foreign keys of the child tables      *)
(* (SQLite, the default of app.py, does not unless asked to).              *)

startswith(s, prefix) == LitAt(s, 1, prefix, FALSE)
\* img.image_url.replace('/static/', 'static/')
image_path(image_url) == Sub(<<Lit(<<"/","s","t","a","t","i","c","/">>)>>, <<"s","t","a","t","i","c","/">>, image_url, FALSE)
\* the files of the images of a post that the handler tries to remove
UploadedFiles(post_id) ==
    {image_path(img.image_url) : img \in
        {i \in post_images : /\ i.post_id = post_id
                             /\ i.image_url # <<>>
                             /\ startswith(i.image_url, <<"/","s","t","a","t","i","c","/","u","p","l","o","a","d","s","/">>)}}
        \cap files

Tables == [posts |-> posts, post_seo |-> post_seo, post_images |-> post_images,
           post_drafts |-> post_drafts, post_categories |-> post_categories]
HasChildren(post_id) ==
    \/ post_id \in DOMAIN post_seo
    \/ \E img \in post_images : img.post_id = post_id
    \/ \E draft \in post_drafts : draft.post_id = post_id
    \/ \E c \in post_categories : c[1] = post_id
Without(f, k) == [i \in DOMAIN f \ {k} |-> f[i]]

At(pc) == call.fn = "admin_seo_delete_post" /\ ~call.done /\ call.pc = pc
Goto(pc) == call' = [call EXCEPT !.pc = pc]
Finish(outcome) == call' = [call EXCEPT !.pc = "done", !.done = TRUE, !.outcome = outcome]

\* post = Post.query.get_or_404(post_id)
DeleteGet ==
    /\ At("get")
    /\ IF call.post_id \in DOMAIN posts THEN Goto("categories") ELSE Finish("not_found")
    /\ UNCHANGED <<posts, post_seo, next_id, last, children>>

\* 1. post.categories = []; db.session.flush(): an exception goes to the
\* outer handler
DeleteCategories ==
    /\ At("categories")
    /\ \E ok \in BOOLEAN :
          IF ok
          THEN /\ post_categories' = {c \in post_categories : c[1] # call.post_id}
               /\ Goto("seo")
          ELSE /\ UNCHANGED post_categories
               /\ Goto("rollback")
    /\ UNCHANGED <<posts, post_seo, next_id, last, post_images, post_drafts, files>>

\* 2. DELETE FROM post_seo by raw SQL, else by the ORM, else 'Could not
\* delete SEO records' and on with the other deletions
DeleteSeo ==
    /\ At("seo")
    /\ \E sql_ok, orm_ok \in BOOLEAN :
          post_seo' = IF (sql_ok \/ orm_ok) /\ call.post_id \in DOMAIN post_seo
                      THEN Without(post_seo, call.post_id)
                      ELSE post_seo
    /\ Goto("images")
    /\ UNCHANGED <<posts, next_id, last, children>>

\* 3. the image rows: os.remove of each uploaded file (a failure is ignored)
\* and session.delete of each row, then the raw SQL; when the query raises,
\* the raw SQL alone, else 'Could not delete image records'
DeleteImages ==
    /\ At("images")
    /\ \E query_ok, sql_ok \in BOOLEAN :
          IF query_ok
          THEN /\ \E removed \in SUBSET UploadedFiles(call.post_id) : files' = files \ removed
               /\ post_images' = {img \in post_images : img.post_id # call.post_id}
          ELSE /\ UNCHANGED files
               /\ post_images' = IF sql_ok
                                 THEN {img \in post_images : img.post_id # call.post_id}
                                 ELSE post_images
    /\ Goto("drafts")
    /\ UNCHANGED <<posts, post_seo, next_id, last, post_drafts, post_categories>>

\* 4. the draft rows, the same way
DeleteDrafts ==
    /\ At("drafts")
    /\ \E query_ok, sql_ok \in BOOLEAN :
          post_drafts' = IF query_ok \/ sql_ok
                         THEN {draft \in post_drafts : draft.post_id # call.post_id}
                         ELSE post_drafts
    /\ Goto("post")
    /\ UNCHANGED <<posts, post_seo, next_id, last, post_images, post_categories, files>>

\* 5. db.session.delete(post); db.session.commit(); flash(... 'success')
DeleteCommit ==
    /\ At("post")
    /\ \E ok \in BOOLEAN :
          IF ok /\ ~(call.foreign_keys /\ HasChildren(call.post_id))
          THEN /\ posts' = Without(posts, call.post_id)
               /\ Finish("deleted")
          ELSE /\ UNCHANGED posts
               /\ Goto("rollback")
    /\ UNCHANGED <<post_seo, next_id, last, children>>

\* except Exception: flash(... 'error'); db.session.rollback()
DeleteRollback ==
    /\ At("rollback")
    /\ posts' = call.before.posts
    /\ post_seo' = call.before.post_seo
    /\ post_images' = call.before.post_images
    /\ post_drafts' = call.before.post_drafts
    /\ post_categories' = call.before.post_categories
    /\ Finish("error")
    /\ UNCHANGED <<next_id, last, files>>

\* the database of the delete requests: post 1 with any of its children,
\* post 2 with all of them
DeletePost(i) ==
    [id |-> i, title |-> Fill(i), slug |-> Fill(i), content |-> P(Fill(i)),
     excerpt |-> <<>>, featured_image |-> <<>>]
DeleteSeoRow == SeoRow([k \in SeoKeys |-> <<>>], <<>>, 1, 1, 0, 0)
UploadA == [id |-> 1, post_id |-> 1, image_url |-> <<"/","s","t","a","t","i","c","/","u","p","l","o","a","d","s","/","a",".","p","n","g">>]
External == [id |-> 2, post_id |-> 1, image_url |-> <<"h","t","t","p","s",":","/","/","c","d","n",".","e","x","a","m","p","l","e","/","b",".","p","n","g">>]
UploadC == [id |-> 3, post_id |-> 2, image_url |-> <<"/","s","t","a","t","i","c","/","u","p","l","o","a","d","s","/","c",".","p","n","g">>]
InitDelete ==
    /\ posts = (1 :> DeletePost(1)) @@ (2 :> DeletePost(2))
    /\ post_seo \in {(2 :> DeleteSeoRow), (1 :> DeleteSeoRow) @@ (2 :> DeleteSeoRow)}
    /\ post_images \in {imgs \cup {UploadC} : imgs \in SUBSET {UploadA, External}}
    /\ post_drafts \in {{[id |-> 2, post_id |-> 2]},
                        {[id |-> 1, post_id |-> 1], [id |-> 2, post_id |-> 2]}}
    /\ post_categories \in {{<<2, "news">>}, {<<1, "news">>, <<2, "news">>}}
    /\ files \in {{<<"s","t","a","t","i","c","/","u","p","l","o","a","d","s","/","c",".","p","n","g">>}, {<<"s","t","a","t","i","c","/","u","p","l","o","a","d","s","/","a",".","p","n","g">>, <<"s","t","a","t","i","c","/","u","p","l","o","a","d","s","/","c",".","p","n","g">>}}
    /\ next_id = 3
    /\ last = [op |-> "none", outcome |-> "none"]
    /\ \E post_id \in 1..3, foreign_keys \in BOOLEAN :
          call = [fn |-> "admin_seo_delete_post", post_id |-> post_id,
                  foreign_keys |-> foreign_keys, pc |-> "get", done |-> FALSE,
                  outcome |-> "pending", before |-> Tables, files_before |-> files]
NextDelete ==
    \/ DeleteGet
    \/ DeleteCategories
    \/ DeleteSeo
    \/ DeleteImages
    \/ DeleteDrafts
    \/ DeleteCommit
    \/ DeleteRollback
SpecDelete == InitDelete /\ [][NextDelete]_vars

-----------------------------------------------------------------------------
(* Properties                                                              *)

\* C1: for every post and SEO field set, all-empty fields included,
\* calculate_seo_score returns an integer s with 0 <= s <= 100.
ScoreInRange ==
    Done("calculate_seo_score") => call.result \in 0..100

\* C1 witness: the score of the all-empty post with the empty field set
ScoreOfEmptyInputs ==
    /\ Done("calculate_seo_score")
    /\ call.post.title = <<>> /\ call.post.slug = <<>> /\ call.post.content = <<>>
    /\ call.post.excerpt = <<>> /\ call.post.featured_image = <<>>
    /\ DOMAIN call.seo_data = {}
    /\ call.result = 0

\* the rubric of the score table, from the lengths and counts of the inputs
Present(d, k) == k \in DOMAIN d /\ Len(d[k]) > 0
RubricSum(post, d) ==
    LET tl == Len(post.title)
        dl == IF "meta_description" \in DOMAIN d THEN Len(d["meta_description"]) ELSE 0
        wc == Post_word_count(post)
        nh == Len(extract_headings(post.content))
        kd == IF "keyword_density" \in DOMAIN d THEN d["keyword_density"] ELSE 0
        sl == Len(post.slug)
    IN    (IF 30 <= tl /\ tl <= 60 THEN 10 ELSE IF tl > 0 THEN 5 ELSE 0)
        + (IF 120 <= dl /\ dl <= 155 THEN 10 ELSE IF dl > 0 THEN 5 ELSE 0)
        + (IF Present(d, "primary_keyword") THEN 15 ELSE 0)
        + (IF wc >= 1000 THEN 15 ELSE IF wc >= 500 THEN 10 ELSE IF wc >= 300 THEN 5 ELSE 0)
        + (IF nh >= 3 THEN 10 ELSE IF nh >= 1 THEN 5 ELSE 0)
        + (IF Len(post.featured_image) > 0 THEN 5 ELSE 0)
        + (IF 100 <= kd /\ kd <= 250 THEN 10 ELSE IF 50 <= kd /\ kd <= 300 THEN 5 ELSE 0)
        + (IF 0 < sl /\ sl <= 60 THEN 5 ELSE 0)
        + (IF Len(post.excerpt) > 0 THEN 5 ELSE 0)
        + (IF Present(d, "og_title") /\ Present(d, "og_description") THEN 10
           ELSE IF Present(d, "og_title") \/ Present(d, "og_description") THEN 5 ELSE 0)

\* C2: calculate_seo_score equals min(100, sum of the ten rubric criteria), the
\* title bounds 30 and 60 inclusive.
ScoreIsRubricSum ==
    Done("calculate_seo_score") =>
        call.result = PyMin(100, RubricSum(call.post, call.seo_data))

\* C2 witness: a title of exactly 30 characters, 1000 words, a full field set
ScoreOfThirtyCharTitle ==
    /\ Done("calculate_seo_score")
    /\ Len(call.post.title) = 30
    /\ Post_word_count(call.post) = 1000
    /\ call.result = 85

\* C3: after any sequence of create and edit operations, the seo_score stored
\* with a post equals calculate_seo_score recomputed from the post's stored
\* fields and its stored SEO field set.
StoredFieldSet(row) == [k \in SeoKeys |-> row[k]]
StoredScoreIsFresh ==
    \A i \in DOMAIN post_seo :
        post_seo[i].seo_score = calculate_seo_score(posts[i], StoredFieldSet(post_seo[i]))

\* C4: a create or edit request whose SEO fields fail validate_seo_fields with
\* errors persists nothing; a request is rejected for errors only, never for
\* warnings alone.
ErrorsBlockSave ==
    [][ /\ (last'.op \in {"new", "edit"} /\ last'.seo_errors # <<>>)
            => (posts' = posts /\ post_seo' = post_seo)
        /\ (last'.op \in {"new", "edit"} /\ last'.outcome = "errors")
            => last'.errors # <<>> ]_vars

\* C5: the score computed for a save counts the keyword-density points of the
\* primary keyword's density in the content: 10 in [1.0, 2.5], 5 in [0.5, 3.0].
SavedScoreCountsDensity ==
    last.outcome = "saved" =>
        last.seo_score =
            calculate_seo_score(posts[last.post_id],
                ("keyword_density" :>
                    calculate_keyword_density(posts[last.post_id].content,
                                              last.seo_data["primary_keyword"]))
                @@ last.seo_data)

Occ(msgs, template) == Cardinality({i \in DOMAIN msgs : msgs[i][1] = template})
Count(conds) == Cardinality({i \in DOMAIN conds : conds[i]})
TooLong(d, k, n) == k \in DOMAIN d /\ Len(d[k]) > n
One(c) == IF c THEN 1 ELSE 0

\* C6: validate_seo_fields returns exactly one error for each missing required
\* field and exactly one warning for each of: meta_title over 60 characters,
\* meta_description over 155, missing og_title, og_description, og_image.
ValidateExact ==
    Done("validate_seo_fields") =>
        LET d == call.seo_data
            e == call.result.errors
            w == call.result.warnings
        IN  /\ Occ(e, "Primary keyword is required") = One(~Present(d, "primary_keyword"))
            /\ Occ(e, "Meta title is required") = One(~Present(d, "meta_title"))
            /\ Occ(e, "Meta description is required") = One(~Present(d, "meta_description"))
            /\ Len(e) = Count(<<~Present(d, "primary_keyword"), ~Present(d, "meta_title"),
                                ~Present(d, "meta_description")>>)
            /\ Occ(w, "Meta title should be 60 characters or less (currently {})")
                  = One(TooLong(d, "meta_title", 60))
            /\ Occ(w, "Meta description should be 155 characters or less (currently {})")
                  = One(TooLong(d, "meta_description", 155))
            /\ Occ(w, "OG title is recommended for social sharing") = One(~Present(d, "og_title"))
            /\ Occ(w, "OG description is recommended for social sharing")
                  = One(~Present(d, "og_description"))
            /\ Occ(w, "OG image is recommended for social sharing") = One(~Present(d, "og_image"))
            /\ Len(w) = Count(<<TooLong(d, "meta_title", 60), TooLong(d, "meta_description", 155),
                                ~Present(d, "og_title"), ~Present(d, "og_description"),
                                ~Present(d, "og_image")>>)

\* C6 witness: the fully empty field set gives three errors and three warnings
ValidateEmptyFieldSet ==
    /\ Done("validate_seo_fields")
    /\ DOMAIN call.seo_data = {}
    /\ Len(call.result.errors) = 3
    /\ Len(call.result.warnings) = 3

ValidatedFields == {"primary_keyword", "meta_title", "meta_description",
                    "og_title", "og_description", "og_image"}

\* C7 (as stated): for a required or recommended field f, validate_seo_fields on
\* a field set lacking f and on the same set with f = "" give different results.
AbsentDiffersFromEmpty ==
    Done("validate_seo_fields") =>
        \A f \in ValidatedFields \ DOMAIN call.seo_data :
            validate_seo_fields((f :> <<>>) @@ call.seo_data) # call.result

\* C7 (amended): a field absent from the field set is validated exactly like
\* the same field present with the empty string: the two results are equal.
AbsentSameAsEmpty ==
    Done("validate_seo_fields") =>
        \A f \in ValidatedFields \ DOMAIN call.seo_data :
            validate_seo_fields((f :> <<>>) @@ call.seo_data) = call.result

\* C7 witness: a validated field set without primary_keyword, reported missing
ValidateAbsentKeyword ==
    /\ Done("validate_seo_fields")
    /\ "primary_keyword" \notin DOMAIN call.seo_data
    /\ "meta_title" \in DOMAIN call.seo_data
    /\ Occ(call.result.errors, "Primary keyword is required") = 1

\* C8: generate_internal_link_suggestions returns the candidates sharing at
\* least 2 lowercase title words with the current title, each with relevance =
\* the size of the intersection, sorted by relevance descending, cut to the top
\* 5; it is non-empty whenever some candidate shares 2 or more words.
Common(t1, t2) == Cardinality(split(Lower(t1)) \cap split(Lower(t2)))
LinkSuggestionsAsSpecified ==
    Done("generate_internal_link_suggestions") =>
        LET t == call.post_title
            all == call.all_posts
            r == call.result
            cands == {k \in DOMAIN all : Common(t, all[k].title) >= 2}
        IN  /\ Len(r) = PyMin(5, Cardinality(cands))
            /\ \A i \in DOMAIN r :
                  /\ \E k \in cands : all[k] = r[i].post
                  /\ r[i].relevance = Common(t, r[i].post.title)
            /\ \A i, j \in DOMAIN r : i < j => r[i].relevance >= r[j].relevance
            /\ \A k \in cands :
                  (\E i \in DOMAIN r : r[i].post = all[k])
                  \/ (\A i \in DOMAIN r : r[i].relevance >= Common(t, all[k].title))
            /\ (cands # {} => r # <<>>)

\* tags replaced by a space, whitespace collapsed, ends trimmed
PlainText(html) == strip(Sub(<<Ws1>>, <<" ">>, Sub(AnyTag, <<" ">>, html, FALSE), FALSE))

FaqWords == <<
    <<Lit(<<"f","a","q">>)>>,
    <<Lit(<<"f","r","e","q","u","e","n","t","l","y">>), Ws1, Lit(<<"a","s","k","e","d">>)>>,
    <<Lit(<<"q","u","e","s","t","i","o","n">>), Opt(<<"s">>), Ws1, Lit(<<"a","n","d">>), Ws1,
      Lit(<<"a","n","s","w","e","r">>), Opt(<<"s">>)>> >>
InternalLinkWords == <<
    <<Lit(<<"i","n","t","e","r","n","a","l">>), Ws1, Lit(<<"l","i","n","k">>)>>,
    <<Lit(<<"r","e","l","a","t","e","d">>), Ws1, Lit(<<"a","r","t","i","c","l","e","s">>)>>,
    <<Lit(<<"s","e","e">>), Ws1, Lit(<<"a","l","s","o">>)>> >>

\* the h2-h6 headings of a document: the start of each start tag, and the
\* heading's own text (from the end of its start tag to the next heading end tag)
HeadingStarts(s) == {i \in 1..Len(s) : Ends(HOpen, s, i, TRUE) # {}}
OwnText(s, i) ==
    LET e == Max(Ends(HOpen, s, i, TRUE))
        c == Search(HClose, s, e, TRUE)
    IN  Slice(s, e, IF c = 0 THEN Len(s) + 1 ELSE c)
TextHas(text, words) == \E k \in DOMAIN words : Search(words[k], text, 1, TRUE) # 0
FaqHeadings(s) == {i \in HeadingStarts(s) : TextHas(OwnText(s, i), FaqWords)}
MatchingHeadings(s) ==
    {i \in HeadingStarts(s) : TextHas(OwnText(s, i), FaqWords \o InternalLinkWords)}
\* the plain-text boilerplate rules, which apply outside headings too
HasBoilerplateText(s) ==
    \/ \E k \in DOMAIN text_patterns_to_remove : Search(text_patterns_to_remove[k], s, 1, TRUE) # 0
    \/ \E k \in {5, 6} : Search(internal_link_patterns[k], s, 1, TRUE) # 0

\* C9: the filter cuts at the first h2-h6 heading whose text matches an FAQ
\* pattern: the text before that heading is kept and the heading and all after
\* it are dropped.
FaqCutKeepsTextBefore ==
    (/\ Done("extract_searchable_content")
     /\ FaqHeadings(call.content) # {}
     /\ ~HasBoilerplateText(call.content)
     /\ MatchingHeadings(call.content) = FaqHeadings(call.content))
    => call.result = PlainText(Slice(call.content, 1, Min(FaqHeadings(call.content))))

\* C10: when no h2-h6 heading's own text matches an FAQ or internal-link
\* pattern, nothing is cut and the text of the whole document is returned.
NoMatchingHeadingNoCut ==
    (/\ Done("extract_searchable_content")
     /\ MatchingHeadings(call.content) = {}
     /\ ~HasBoilerplateText(call.content))
    => call.result = PlainText(call.content)

HasAt(s, p, str) ==
    /\ p + Len(str) - 1 <= Len(s)
    /\ \A k \in 1..Len(str) : s[p + k - 1] = str[k]
\* the positions where the value of an attribute opened by `open` begins
ValueStarts(s, open) == {p + Len(open) : p \in {q \in 1..Len(s) : HasAt(s, q, open)}}
ImgSrcs(s) == ValueStarts(s, <<"<","i","m","g"," ","s","r","c","=","\"">>)

\* C11: after the content normalizer no image src of a stored content starts
\* with a bare 'static/'; every image src starts with '/static/' or 'http'.
ImageSrcsCanonical ==
    Done("reprocess_all_posts") =>
        \A p \in ImgSrcs(call.content) :
            /\ ~HasAt(call.content, p, <<"s","t","a","t","i","c","/">>)
            /\ HasAt(call.content, p, <<"/","s","t","a","t","i","c","/">>) \/ HasAt(call.content, p, <<"h","t","t","p">>)

BaseHost == <<"b","l","o","g",".","e","x","a","m","p","l","e">>
AHrefs(s) == ValueStarts(s, <<"<","a"," ","h","r","e","f","=","\"">>)
HostStart(s, p) ==
    IF HasAt(s, p, <<"h","t","t","p","s",":","/","/">>) THEN p + 8
    ELSE IF HasAt(s, p, <<"h","t","t","p",":","/","/">>) THEN p + 7
    ELSE 0
IsExternal(s, p) == HostStart(s, p) # 0 /\ ~HasAt(s, HostStart(s, p), BaseHost \o <<"/">>)
TagEnd(s, p) == Min({q \in p..Len(s) : s[q] = ">"})
TagHas(s, p, attr) == \E q \in p..TagEnd(s, p) : q + Len(attr) - 1 <= TagEnd(s, p) /\ HasAt(s, q, attr)

\* C12: after the content normalizer every link whose href host differs from
\* the base host carries target="_blank" and rel="noopener noreferrer".
ExternalLinksOpenNewTab ==
    Done("reprocess_all_posts") =>
        \A p \in AHrefs(call.content) :
            IsExternal(call.content, p) =>
                /\ TagHas(call.content, p, <<" ","t","a","r","g","e","t","=","\"","_","b","l","a","n","k","\"">>)
                /\ TagHas(call.content, p, <<" ","r","e","l","=","\"","n","o","o","p","e","n","e","r"," ","n","o","r","e","f","e","r","r","e","r","\"">>)

\* C13: process_blog_content is idempotent: every run of reprocess_all_posts
\* after the first leaves the stored content unchanged.
ReprocessIdempotent ==
    [][(call.fn = "reprocess_all_posts" /\ call.runs >= 1) => call'.content = call.content]_vars

\* C13 witness: a non-empty content after three runs
ReprocessedThrice ==
    /\ Done("reprocess_all_posts")
    /\ call.runs = MaxRuns
    /\ ImgSrcs(call.content) # {}
    /\ AHrefs(call.content) # {}

\* the neutral default of each core function
IsNeutral(name, a, v) ==
    CASE name \in {"calculate_word_count", "calculate_keyword_density"} -> v = 0
      [] name = "calculate_reading_time" -> v = 1
      [] name \in {"extract_headings", "extract_searchable_content",
                   "generate_internal_link_suggestions"} -> v = <<>>
      [] name = "extract_youtube_video_id" -> v = None
      [] name = "insert_youtube_video_in_content" -> v = a[1]
      [] name \in {"generate_og_tags", "generate_twitter_tags"} ->
            \A k \in DOMAIN v : v[k] \in {a[1], a[2]}

\* C14: every core function is total: with a None or empty string argument it
\* returns its neutral default and never raises.
CoreFunctionsTotal ==
    (Done("core") /\ \E i \in DOMAIN call.args : Falsy(call.args[i])) =>
        /\ ~call.result.raised
        /\ IsNeutral(call.name, call.args, call.result.value)

Blank == {" ", "\n", "\r", "\t"}
LowerAt(s, p, str) ==
    /\ p + Len(str) - 1 <= Len(s)
    /\ \A k \in 1..Len(str) : LowerCh(s[p + k - 1]) = str[k]
\* the positions just after each end tag </hN>
EndsOfClose(s, n) == {p + 5 : p \in {q \in 1..Len(s) : LowerAt(s, q, <<"<", "/", "h", n, ">">>)}}
Second(S) == Min(S \ {Min(S)})
\* the positions of the start tags <h1 ...> .. <h6 ...>
IsHeadingStart(s, p) ==
    /\ LowerAt(s, p, <<"<", "h">>)
    /\ p + 3 <= Len(s)
    /\ s[p + 2] \in {"1", "2", "3", "4", "5", "6"}
    /\ \/ s[p + 3] = ">"
       \/ s[p + 3] \in Space /\ \E q \in (p + 4)..Len(s) : s[q] = ">"
\* the end of the second </h2>, else of the second </h3>, else 0
SecondHeadingEnd(s) ==
    IF Cardinality(EndsOfClose(s, "2")) >= 2 THEN Second(EndsOfClose(s, "2"))
    ELSE IF Cardinality(EndsOfClose(s, "3")) >= 2 THEN Second(EndsOfClose(s, "3"))
    ELSE 0
\* where the embed belongs: before the next heading and the blanks in front of it
EmbedPosition(s) ==
    LET e == SecondHeadingEnd(s)
        next == {p \in e..Len(s) : IsHeadingStart(s, p)}
    IN  IF e = 0 THEN Len(s) + 1
        ELSE IF next = {} THEN e
        ELSE Min({q \in e..Min(next) : \A r \in q..(Min(next) - 1) : s[r] \in Blank})
SampleId == <<"d","Q","w","4","w","9","W","g","X","c","Q">>
SampleUrl == <<"h","t","t","p","s",":","/","/","y","o","u","t","u",".","b","e","/","d","Q","w","4","w","9","W","g","X","c","Q">>

IsSplice(out, content, html) ==
    \E k \in 0..Len(content) :
        out = SubSeq(content, 1, k) \o html \o SubSeq(content, k + 1, Len(content))

\* C16 (as stated): for every content and valid URL the output is
\* prefix + embed block + suffix with prefix + suffix = the content.
OneSpliceAnyContent ==
    (Done("insert_youtube_video_in_content") /\ call.youtube_url = SampleUrl)
    => IsSplice(call.result, call.content, video_html(SampleId))

\* C16 (amended): for every non-empty content and valid URL the output is
\* prefix + embed block + suffix with prefix + suffix = the content.
OneSpliceNonEmptyContent ==
    (/\ Done("insert_youtube_video_in_content")
     /\ call.youtube_url = SampleUrl
     /\ call.content # <<>>)
    => IsSplice(call.result, call.content, video_html(SampleId))

\* C16 witness: an embed spliced inside the content, text on both sides
SplicedInside ==
    /\ Done("insert_youtube_video_in_content")
    /\ call.youtube_url = SampleUrl
    /\ \E k \in 1..(Len(call.content) - 1) :
          call.result = SubSeq(call.content, 1, k) \o video_html(SampleId)
                           \o SubSeq(call.content, k + 1, Len(call.content))

\* C17: insert_youtube_video_in_content and the process_content filter return
\* the content unchanged when the URL is empty, the content is empty, or no
\* video ID can be extracted from the URL.
NoEmbedWithoutVideo ==
    (/\ Done("insert_youtube_video_in_content") \/ Done("process_content_filter")
     /\ \/ Falsy(call.youtube_url)
        \/ call.content = <<>>
        \/ call.youtube_url = <<"h","t","t","p","s",":","/","/","v","i","m","e","o",".","c","o","m","/","1">>)
    => call.result = call.content

\* C17 witness: the filter on a content with two headings and a URL without ID
FilterLeavesContent ==
    /\ Done("process_content_filter")
    /\ call.youtube_url = <<"h","t","t","p","s",":","/","/","v","i","m","e","o",".","c","o","m","/","1">>
    /\ Cardinality(EndsOfClose(call.content, "2")) >= 2
    /\ call.result = call.content

IsId11(v) == Len(v) = 11 /\ \A k \in 1..11 : v[k] \in IdChars
\* the text from p up to the next character of stops, or the end
ValueAt(s, p, stops) ==
    SubSeq(s, p, Min({q \in p..(Len(s) + 1) : q = Len(s) + 1 \/ s[q] \in stops}) - 1)
After(s, str) == {p + Len(str) : p \in {q \in 1..Len(s) : HasAt(s, q, str)}}
\* the query parameter v of a watch URL
VParams(s) ==
    {p + 2 : p \in {q \in 1..Len(s) :
        /\ \E w \in After(s, <<"y","o","u","t","u","b","e",".","c","o","m","/","w","a","t","c","h","?">>) : w <= q
        /\ s[q - 1] \in {"?", "&"}
        /\ HasAt(s, q, <<"v","=">>)}}
\* the video ID of a URL of a standard shape, None for any other URL
StandardId(s) ==
    LET vs == {ValueAt(s, p, {"&", "#"}) : p \in VParams(s)}
               \cup {ValueAt(s, p, {"?", "&", "#", "/"}) : p \in After(s, <<"y","o","u","t","u",".","b","e","/">>)
                                                       \cup After(s, <<"y","o","u","t","u","b","e",".","c","o","m","/","e","m","b","e","d","/">>)}
        ids == {v \in vs : IsId11(v)}
    IN  IF ids = {} THEN None ELSE CHOOSE v \in ids : TRUE

\* C18: for a URL of a standard shape with an 11-character ID,
\* extract_youtube_video_id returns that ID whatever other query parameters
\* precede or follow it; for an empty URL or one of no shape it returns None.
VideoIdExtracted ==
    Done("extract_youtube_video_id") => call.result = StandardId(strip(call.url))

\* C19: the word counter keeps the word boundary between two adjacent block
\* elements: the count of their concatenation is the sum of their counts.
AdjacentBlocksCountSeparately ==
    Done("calculate_word_count") =>
        /\ call.result.word_count
              = calculate_word_count(call.first) + calculate_word_count(call.second)
        /\ call.result.post_word_count
              = Post_word_count([content |-> call.first]) + Post_word_count([content |-> call.second])

Dist(a, b) == IF a >= b THEN a - b ELSE b - a
\* r is max(1, n / d rounded to a nearest integer)
IsFlooredRound(r, n, d) ==
    /\ r >= 1
    /\ r > 1 => 2 * Dist(n, r * d) <= d
    /\ r = 1 => 2 * n <= 3 * d

\* C20: calculate_reading_time is max(1, round(word_count / words_per_minute)):
\* at least 1 for every content, and exactly 1 for empty content.
ReadingTimeAtLeastOne ==
    Done("calculate_reading_time") =>
        /\ IsFlooredRound(call.result.reading_time,
                          calculate_word_count(call.html_content), call.wpm)
        /\ IsFlooredRound(call.result.post_reading_time,
                          calculate_word_count(call.html_content), words_per_minute)
        /\ Falsy(call.html_content) =>
              call.result.reading_time = 1 /\ call.result.post_reading_time = 1

\* C20 witness: empty content read at 200 words per minute takes 1 minute
ReadingTimeOfEmpty ==
    /\ Done("calculate_reading_time")
    /\ call.html_content = <<>>
    /\ call.wpm = words_per_minute
    /\ call.result.reading_time = 1

\* sub occurs in s, letter case ignored
OccursIn(sub, s) ==
    \E q \in 1..(Len(s) - Len(sub) + 1) :
        \A k \in 1..Len(sub) : LowerCh(s[q + k - 1]) = LowerCh(sub[k])
\* the title with the keyword appended: with ' Guide' when that fits
TitleWithKeyword(t, k, max) ==
    IF Len(t) + Len(k) + 9 <= max THEN t \o <<" ","-"," ">> \o k \o <<" ","G","u","i","d","e">>
    ELSE t \o <<" ","-"," ">> \o k
KeywordFits(t, k, max) ==
    /\ ~Falsy(k)
    /\ ~OccursIn(k, t)
    /\ Len(t) + Len(k) + 3 <= max

\* C21 (as stated): whenever the keyword does not occur in the title and
\* title + ' - ' + keyword fits in max_len, generate_meta_title returns the
\* title followed by ' - {keyword} Guide' or ' - {keyword}', whichever is at
\* most max_len characters.
KeywordAppendedAnyTitle ==
    (Done("generate_meta_title") /\ KeywordFits(call.title, call.keyword, call.max_length))
    => /\ call.result = TitleWithKeyword(call.title, call.keyword, call.max_length)
       /\ Len(call.result) <= call.max_length

\* C21 (amended): the same for a non-empty title.
KeywordAppendedToTitle ==
    (/\ Done("generate_meta_title")
     /\ call.title # <<>>
     /\ KeywordFits(call.title, call.keyword, call.max_length))
    => /\ call.result = TitleWithKeyword(call.title, call.keyword, call.max_length)
       /\ Len(call.result) <= call.max_length

\* C21 witness: ' - seo Guide' would pass 60 characters, ' - seo' is appended
KeywordAppendedWithoutGuide ==
    /\ Done("generate_meta_title")
    /\ call.title = Fill(52) /\ call.keyword = Seo /\ call.max_length = 60
    /\ call.result = Fill(52) \o <<" ","-"," ","s","e","o">>

\* C22: for every content and keyword, generate_meta_description returns a
\* string of at most max_len characters, any appended '...' included.
MetaDescriptionWithinMaxLen ==
    Done("generate_meta_description") => Len(call.result) <= call.max_length

\* the alphabetic tokens of the title that may be its keyword, as <<first, last>>
Candidates(t) ==
    {c \in (DOMAIN t) \X (DOMAIN t) :
        /\ c[2] - c[1] >= 2
        /\ \A k \in c[1]..c[2] : t[k] \in Letters
        /\ c[1] = 1 \/ t[c[1] - 1] \notin WordChars
        /\ c[2] = Len(t) \/ t[c[2] + 1] \notin WordChars
        /\ Lower(SubSeq(t, c[1], c[2])) \notin stop_words}
Capitalized(w) == <<UpperCh(LowerCh(w[1]))>> \o Lower(Tail(w))
IsLongestCandidate(t, result) ==
    \E c \in Candidates(t) :
        /\ result = Capitalized(SubSeq(t, c[1], c[2]))
        /\ \A d \in Candidates(t) :
              \/ d[2] - d[1] < c[2] - c[1]
              \/ d[2] - d[1] = c[2] - c[1] /\ c[1] <= d[1]
\* the words of the title that hold, besides punctuation, three word
\* characters or more that are no stop word
SignificantWords(t) ==
    {c \in (DOMAIN t) \X (DOMAIN t) :
        /\ \A k \in c[1]..c[2] : t[k] \notin Space
        /\ c[1] = 1 \/ t[c[1] - 1] \in Space
        /\ c[2] = Len(t) \/ t[c[2] + 1] \in Space
        /\ IsSignificant(SubSeq(t, c[1], c[2]))}
IsFirstSignificantWord(t, result) ==
    \E c \in SignificantWords(t) :
        /\ result = CleanWord(SubSeq(t, c[1], c[2]))
        /\ \A d \in SignificantWords(t) : c[1] <= d[1]

\* C23 (as stated): extract_primary_keyword returns, title-cased, the longest
\* alphabetic token of at least 3 letters of the title that is no stop word,
\* the earliest of the longest; lowercased the result is never a stop word;
\* it is the empty string when the title has no such token.
PrimaryKeywordOrEmpty ==
    (Done("extract_primary_keyword") /\ ~Falsy(call.title))
    => /\ Candidates(call.title) # {} => IsLongestCandidate(call.title, call.result)
       /\ Candidates(call.title) = {} => call.result = <<>>
       /\ Lower(call.result) \notin stop_words

\* C23 (amended): the same, but a title with no such token gives its first
\* whitespace-separated word that, stripped of its non-word characters, has
\* 3 characters or more and is no stop word, stripped and in its own case;
\* the empty string when there is no such word either.
PrimaryKeywordOrFirstWord ==
    (Done("extract_primary_keyword") /\ ~Falsy(call.title))
    => /\ Candidates(call.title) # {} => IsLongestCandidate(call.title, call.result)
       /\ (Candidates(call.title) = {} /\ SignificantWords(call.title) # {})
             => IsFirstSignificantWord(call.title, call.result)
       /\ (Candidates(call.title) = {} /\ SignificantWords(call.title) = {})
             => call.result = <<>>
       /\ Lower(call.result) \notin stop_words

\* C23 witness: of two longest tokens the earlier one is returned
EarlierOfTwoLongest ==
    /\ Done("extract_primary_keyword")
    /\ call.title = <<"t","h","e"," ","s","e","o"," ","w","e","b">>
    /\ call.result = <<"S","e","o">>

\* the templates of keyword k that match none of the heading texts hs,
\* letter case ignored, by their place in the template list
Admissible(hs, k) ==
    {i \in DOMAIN heading_patterns(k) :
        \A h \in DOMAIN hs : Lower(hs[h].text) # Lower(heading_patterns(k)[i])}
SuggestedFrom(result, admissible, k) ==
    /\ Len(result) = PyMin(5, Cardinality(admissible))
    /\ \A n \in DOMAIN result :
          /\ result[n].level = <<"h","2">>
          /\ \E i \in admissible :
                /\ result[n].text = heading_patterns(k)[i]
                /\ Cardinality({j \in admissible : j < i}) = n - 1
\* C24: suggest_headings returns, in template order, at most 5 suggestions,
\* each of level 'h2', each one of the keyword templates and none equal
\* (case-insensitively) to the text of an h2/h3 heading of the content; it
\* returns the empty list when content or keyword is empty.
SuggestionsAsSpecified ==
    Done("suggest_headings")
    => IF Falsy(call.content) \/ Falsy(call.keyword) THEN call.result = <<>>
       ELSE SuggestedFrom(call.result,
                          Admissible(extract_headings(call.content), call.keyword),
                          call.keyword)

\* C24 witness: a heading that differs from a template in case only takes
\* that template out, and five of the others are suggested
SuggestionsSkipExistingHeading ==
    /\ Done("suggest_headings")
    /\ call.content = H2(<<"w","h","a","t"," ","i","s"," ","s","e","o","?">>) \o H3(<<"H","o","w"," ","T","o"," ","S","E","O">>)
    /\ call.keyword = Seo
    /\ Len(call.result) = 5
    /\ call.result[1].text = <<"s","e","o"," ","G","u","i","d","e">>

\* C24 witness: fewer than five templates are left
FewerThanFiveSuggestions ==
    /\ Done("suggest_headings")
    /\ Len(call.result) \in 1..4

\* C25: with a valid URL and a second H2 (else H3) heading, the embed comes
\* after the content that follows that heading and before the next heading:
\* only whitespace lies between the embed and the next heading, or the end of
\* the content when no heading follows.
EmbedAfterSectionContent ==
    (/\ Done("insert_youtube_video_in_content")
     /\ call.youtube_url = SampleUrl
     /\ call.content # <<>>
     /\ SecondHeadingEnd(call.content) # 0)
    => \E k \in SecondHeadingEnd(call.content)..(Len(call.content) + 1) :
          /\ call.result = Slice(call.content, 1, k) \o video_html(SampleId)
                              \o Slice(call.content, k, Len(call.content) + 1)
          /\ \A p \in SecondHeadingEnd(call.content)..(k - 1) :
                ~IsHeadingStart(call.content, p)
          /\ \E n \in k..(Len(call.content) + 1) :
                /\ n = Len(call.content) + 1 \/ IsHeadingStart(call.content, n)
                /\ \A r \in k..(n - 1) : call.content[r] \in Blank

\* the sum of the ten criteria, before the cap
CriteriaSum(post, seo_data) ==
    title_points(post) + meta_description_points(seo_data) + primary_keyword_points(seo_data)
    + content_length_points(post) + headings_points(post) + featured_image_points(post)
    + keyword_density_points(seo_data) + slug_points(post) + excerpt_points(post)
    + og_points(seo_data)
AtMost95(sum, result) == sum <= 95 /\ result = sum /\ result # 100
\* C28: the sum of the ten rubric criteria of calculate_seo_score never
\* exceeds 95, so min(score, 100) never changes the result and the score is
\* never 100.
CriteriaSumAtMost95 ==
    Done("calculate_seo_score")
    => AtMost95(CriteriaSum(call.post, call.seo_data), call.result)

\* C28 witness: every criterion at its maximum gives 95
ScoreOfBestPost ==
    /\ Done("calculate_seo_score")
    /\ call.post = BestPost
    /\ "meta_description" \in DOMAIN call.seo_data
    /\ call.seo_data["meta_description"] = Fill(120)
    /\ call.result = 95

\* C29: calculate_keyword_density returns a percentage between 0 and 100
\* inclusive (0 .. 10000 hundredths of a percent).
DensityIsPercentage ==
    Done("calculate_keyword_density") => call.result \in 0..10000

\* the first n of the fixed templates of keyword p, joined by ', '
FirstTemplates(p, n) ==
    Join([i \in 1..PyMin(n, 8) |-> secondary_patterns(p)[i]], <<","," ">>)
\* C30 (as stated): for any count <= 8, two calls of
\* generate_secondary_keywords with the same primary keyword and count and
\* different contents return the same string, the first count fixed templates
\* in order.
SecondaryIgnoresContentAnyCount ==
    (Done("generate_secondary_keywords") /\ call.count <= 8)
    => /\ call.result[1] = call.result[2]
       /\ call.result[1] = FirstTemplates(call.primary_keyword, call.count)

\* C30 (amended): the same for a non-empty primary keyword and a count from
\* 0 to 8.
SecondaryIgnoresContent ==
    (/\ Done("generate_secondary_keywords")
     /\ ~Falsy(call.primary_keyword)
     /\ call.count \in 0..8)
    => /\ call.result[1] = call.result[2]
       /\ call.result[1] = FirstTemplates(call.primary_keyword, call.count)

\* C30 witness: eight templates whatever the content; a ninth item would
\* come from the content
EightTemplatesForAnyContent ==
    /\ Done("generate_secondary_keywords")
    /\ call.primary_keyword = Seo /\ call.count = 8
    /\ call.contents = <<None, P(<<"s","e","o"," ","S","E","O"," ","t","o","o","l","s"," ","t","o","o","l","s"," ","t","o","o","l","s"," ","r","a","n","k"," ","r","a","n","k"," ","p","a","g","e">>)>>
    /\ call.result[1] = call.result[2]
    /\ generate_secondary_keywords(Seo, call.contents[2], 9)
          = call.result[1] \o <<","," ","s","e","o"," ","t","o","o","l","s">>

\* C26: when admin_seo_delete_post completes successfully, the post row is
\* gone and no post_seo, post_images or post_drafts row of that post remains.
DeletedPostLeavesNoChild ==
    (call.fn = "admin_seo_delete_post" /\ call.outcome = "deleted")
    => /\ call.post_id \notin DOMAIN posts
       /\ call.post_id \notin DOMAIN post_seo
       /\ \A img \in post_images : img.post_id # call.post_id
       /\ \A draft \in post_drafts : draft.post_id # call.post_id

\* C27: whenever admin_seo_delete_post fails and rolls back, the post, its
\* SEO record, its draft rows, its image rows and the uploaded files those
\* rows name are as they were before the request.
RollbackRestoresAll ==
    (call.fn = "admin_seo_delete_post" /\ call.outcome = "error")
    => /\ Tables = call.before
       /\ files = call.files_before

=============================================================================
